---- MODULE Spec2Model ----
(***************************************************************************)
(* A model of the NoCloud SDK storage client: Storage (generateSignedUrl,  *)
(* getBodyInfo, upload, uploadStream, delete), Fetcher.fetch / withRetry,  *)
(* resolveJsonResponse, NoCloudAPIError.fromStatus and the base64 / MIME   *)
(* helpers of lib/utils.                                                   *)
(*                                                                         *)
(* A JavaScript string is a sequence of one-character strings.  An async   *)
(* function is cut at its awaits: one action is the code that runs between *)
(* two suspension points.  The network (control plane and object store) is *)
(* the environment: it answers each request in flight with a thrown        *)
(* failure or with a response drawn from small sets.                       *)
(***************************************************************************)
EXTENDS Integers, Sequences, FiniteSets, TLC

(***************************************************************************)
(* Bounds of the model.                                                    *)
(***************************************************************************)
MaxIds == 250
MaxRetries == 2
MaxCalls == 2
MaxStatus == 599
MaxTail == 4

(***************************************************************************)
(* Generic helpers.                                                        *)
(***************************************************************************)
Min(a, b) == IF a < b THEN a ELSE b

\* Math.ceil(a / b) for a >= 0, b > 0
CeilDiv(a, b) == (a + b - 1) \div b

Range(s) == {s[k] : k \in 1..Len(s)}

\* String.prototype.startsWith
StartsWith(s, p) == Len(p) <= Len(s) /\ SubSeq(s, 1, Len(p)) = p

\* s with its first n characters dropped
Drop(s, n) == SubSeq(s, n + 1, Len(s))

\* the longest prefix of s whose characters are all outside stop
RECURSIVE TakeUntil(_, _)
TakeUntil(s, stop) ==
  IF s = <<>> \/ s[1] \in stop THEN <<>>
  ELSE <<s[1]>> \o TakeUntil(Tail(s), stop)

RECURSIVE TrimLeft(_)
TrimLeft(s) == IF s # <<>> /\ s[1] = " " THEN TrimLeft(Tail(s)) ELSE s

RECURSIVE TrimRight(_)
TrimRight(s) ==
  IF s # <<>> /\ s[Len(s)] = " " THEN TrimRight(SubSeq(s, 1, Len(s) - 1)) ELSE s

\* String.prototype.trim (the only white space of the model's alphabet is " ")
Trim(s) == TrimRight(TrimLeft(s))

(***************************************************************************)
(* Characters: code points, UTF-8 and the base64 alphabet.                 *)
(***************************************************************************)
UpperCase == <<"A","B","C","D","E","F","G","H","I","J","K","L","M",
               "N","O","P","Q","R","S","T","U","V","W","X","Y","Z">>
LowerCase == <<"a","b","c","d","e","f","g","h","i","j","k","l","m",
               "n","o","p","q","r","s","t","u","v","w","x","y","z">>
Digits == <<"0","1","2","3","4","5","6","7","8","9">>

\* the base64 alphabet in value order (RFC 4648), as atob reads it
B64Alphabet == UpperCase \o LowerCase \o Digits \o <<"+", "/">>

IndexOf(seq, c) == CHOOSE k \in 1..Len(seq) : seq[k] = c

B64Val(c) == IndexOf(B64Alphabet, c) - 1

\* "e_acute" stands for the one character U+00E9, "euro" for U+20AC
CodePoint(c) ==
  IF c \in Range(UpperCase) THEN 64 + IndexOf(UpperCase, c)
  ELSE IF c \in Range(LowerCase) THEN 96 + IndexOf(LowerCase, c)
  ELSE IF c \in Range(Digits) THEN 47 + IndexOf(Digits, c)
  ELSE CASE c = " " -> 32
         [] c = "!" -> 33
         [] c = "+" -> 43
         [] c = "," -> 44
         [] c = "-" -> 45
         [] c = "/" -> 47
         [] c = ":" -> 58
         [] c = ";" -> 59
         [] c = "=" -> 61
         [] c = "e_acute" -> 233
         [] c = "euro" -> 8364

\* TextEncoder.encode of one character
Utf8Char(c) ==
  LET cp == CodePoint(c) IN
  IF cp < 128 THEN <<cp>>
  ELSE IF cp < 2048 THEN <<192 + (cp \div 64), 128 + (cp % 64)>>
  ELSE <<224 + (cp \div 4096), 128 + ((cp \div 64) % 64), 128 + (cp % 64)>>

\* mutant: one byte for each character, whatever its code point
TextEncode_OneBytePerChar(s) == [k \in 1..Len(s) |-> CodePoint(s[k]) % 256]

\* new TextEncoder().encode(str)
RECURSIVE TextEncode(_)
TextEncode(s) == IF s = <<>> THEN <<>> ELSE Utf8Char(s[1]) \o TextEncode(Tail(s))

(***************************************************************************)
(* lib/utils: MIME detection, data-URL extraction, base64 decoding.        *)
(***************************************************************************)
TextPlain == <<"t","e","x","t","/","p","l","a","i","n">>
OctetStream == <<"a","p","p","l","i","c","a","t","i","o","n","/","o","c","t","e","t","-","s","t","r","e","a","m">>
ImagePng == <<"i","m","a","g","e","/","p","n","g">>
ImageJpeg == <<"i","m","a","g","e","/","j","p","e","g">>
ImageGif == <<"i","m","a","g","e","/","g","i","f">>
ImageWebp == <<"i","m","a","g","e","/","w","e","b","p">>
VideoMp4 == <<"v","i","d","e","o","/","m","p","4">>
ApplicationPdf == <<"a","p","p","l","i","c","a","t","i","o","n","/","p","d","f">>
ApplicationZip == <<"a","p","p","l","i","c","a","t","i","o","n","/","z","i","p">>
ApplicationXml == <<"a","p","p","l","i","c","a","t","i","o","n","/","x","m","l">>
ImageSvg == <<"i","m","a","g","e","/","s","v","g","+","x","m","l">>

\* mutant: the fifth signature is the one letter "U", a prefix of two others
BASE64_SIGNATURES_Overlapping ==
  << [prefix |-> <<"i","V","B","O","R","w","0","K","G","g","o">>, mimeType |-> ImagePng],
     [prefix |-> <<"/","9","j","/">>, mimeType |-> ImageJpeg],
     [prefix |-> <<"R","0","l","G","O","D">>, mimeType |-> ImageGif],
     [prefix |-> <<"U","k","l","G","R">>, mimeType |-> ImageWebp],
     [prefix |-> <<"U">>, mimeType |-> VideoMp4],
     [prefix |-> <<"J","V","B","E","R","i","0">>, mimeType |-> ApplicationPdf],
     [prefix |-> <<"U","E","s","D","B">>, mimeType |-> ApplicationZip],
     [prefix |-> <<"P","D","9","4","b","W","w">>, mimeType |-> ApplicationXml],
     [prefix |-> <<"P","H","N","2","Z","w">>, mimeType |-> ImageSvg] >>

\* Object.entries(BASE64_SIGNATURES), in insertion order
BASE64_SIGNATURES ==
  << [prefix |-> <<"i","V","B","O","R","w","0","K","G","g","o">>, mimeType |-> ImagePng],
     [prefix |-> <<"/","9","j","/">>, mimeType |-> ImageJpeg],
     [prefix |-> <<"R","0","l","G","O","D">>, mimeType |-> ImageGif],
     [prefix |-> <<"U","k","l","G","R">>, mimeType |-> ImageWebp],
     [prefix |-> <<"A","A","A","A">>, mimeType |-> VideoMp4],
     [prefix |-> <<"J","V","B","E","R","i","0">>, mimeType |-> ApplicationPdf],
     [prefix |-> <<"U","E","s","D","B">>, mimeType |-> ApplicationZip],
     [prefix |-> <<"P","D","9","4","b","W","w">>, mimeType |-> ApplicationXml],
     [prefix |-> <<"P","H","N","2","Z","w">>, mimeType |-> ImageSvg] >>

\* null, which is falsy like the empty string
NullType == <<>>

DataPrefix == <<"d","a","t","a",":">>
Base64Marker == <<";","b","a","s","e","6","4",",">>

\* the capture group of /^data:([^;,]+)/, or <<>> when the pattern does not match
DataUrlMediaType(str) ==
  IF StartsWith(str, DataPrefix)
  THEN TakeUntil(Drop(str, Len(DataPrefix)), {";", ","})
  ELSE <<>>

\* the MIME type of the first signature, in table order, that str starts with
RECURSIVE FirstSignature(_, _)
FirstSignature(str, k) ==
  IF k > Len(BASE64_SIGNATURES) THEN NullType
  ELSE IF StartsWith(str, BASE64_SIGNATURES[k].prefix)
       THEN BASE64_SIGNATURES[k].mimeType
       ELSE FirstSignature(str, k + 1)

\* mutant: the signatures are tried first, on the text after the first comma
detectBase64MimeType_SniffsFirst(str) ==
  LET payload == Drop(str, Len(TakeUntil(str, {","})) + 1) IN
  IF FirstSignature(payload, 1) # NullType THEN FirstSignature(payload, 1)
  ELSE IF DataUrlMediaType(str) # <<>> THEN DataUrlMediaType(str)
  ELSE FirstSignature(str, 1)

\* detectBase64MimeType: a data URL's media type as written, else the sniffed
\* type, else null
detectBase64MimeType(str) ==
  IF DataUrlMediaType(str) # <<>> THEN DataUrlMediaType(str)
  ELSE FirstSignature(str, 1)

\* extractBase64Data: the capture group of /^data:[^;,]+;base64,(.+)$/, else str
extractBase64Data(str) ==
  LET mt   == DataUrlMediaType(str)
      rest == Drop(str, Len(DataPrefix) + Len(mt))
  IN IF mt # <<>> /\ StartsWith(rest, Base64Marker) /\ Len(rest) > Len(Base64Marker)
     THEN Drop(rest, Len(Base64Marker))
     ELSE str

\* the length of the match of /=+$/
RECURSIVE TrailingPadding(_)
TrailingPadding(s) ==
  IF s # <<>> /\ s[Len(s)] = "=" THEN 1 + TrailingPadding(SubSeq(s, 1, Len(s) - 1)) ELSE 0

getBase64DecodedSize(base64) ==
  ((Len(base64) * 3) \div 4) - TrailingPadding(base64)

\* atob, step 1: ASCII white space is removed
RECURSIVE StripSpace(_)
StripSpace(s) ==
  IF s = <<>> THEN <<>>
  ELSE IF s[1] = " " THEN StripSpace(Tail(s)) ELSE <<s[1]>> \o StripSpace(Tail(s))

\* atob, step 2: with a length divisible by 4, one or two trailing "=" are removed
AtobData(s) ==
  LET d == StripSpace(s) IN
  IF Len(d) % 4 = 0 /\ Len(d) > 0 /\ d[Len(d)] = "="
  THEN IF Len(d) > 1 /\ d[Len(d) - 1] = "="
       THEN SubSeq(d, 1, Len(d) - 2)
       ELSE SubSeq(d, 1, Len(d) - 1)
  ELSE d

\* atob throws InvalidCharacterError
AtobThrows(s) ==
  LET d == AtobData(s) IN
  Len(d) % 4 = 1 \/ \E k \in 1..Len(d) : d[k] \notin Range(B64Alphabet)

\* the bytes of the 6-bit groups of d (leftover bits are discarded)
RECURSIVE B64Bytes(_)
B64Bytes(d) ==
  IF Len(d) < 2 THEN <<>>
  ELSE LET a == B64Val(d[1])
           b == B64Val(d[2])
           byte1 == a * 4 + (b \div 16)
       IN IF Len(d) = 2 THEN <<byte1>>
          ELSE LET c == B64Val(d[3])
                   byte2 == (b % 16) * 16 + (c \div 4)
               IN IF Len(d) = 3 THEN <<byte1, byte2>>
                  ELSE <<byte1, byte2, (c % 4) * 64 + B64Val(d[4])>>
                         \o B64Bytes(Drop(d, 4))

\* decodeBase64 on an input atob accepts: the char codes of atob's binary string
decodeBase64(base64) == B64Bytes(AtobData(base64))

\* mutant: the parameters are kept
normalizeMimeType_KeepsParams(mimeType) == Trim(mimeType)

\* normalizeMimeType: mimeType.split(";")[0]?.trim() ?? mimeType
normalizeMimeType(mimeType) == Trim(TakeUntil(mimeType, {";"}))

(***************************************************************************)
(* lib/errors: NoCloudAPIError.  An error value is a record; status 0 and  *)
(* code "undefined" stand for an error that is no NoCloudAPIError and has  *)
(* neither property.  A message is a sequence of its pieces.               *)
(***************************************************************************)
CodeOf(status) ==
  CASE status = 400 -> "BAD_REQUEST"
    [] status = 401 -> "INVALID_API_KEY"
    [] status = 429 -> "RATE_LIMIT_EXCEEDED"
    [] status = 404 -> "RESOURCE_NOT_FOUND"
    [] status = 500 -> "INTERNAL_SERVER_ERROR"
    [] OTHER -> "UNKNOWN_ERROR"

\* mutant: an unknown status is reported as 500, as fromCode does for its codes
fromStatus_UnknownAs500(status, message) ==
  [name |-> "NoCloudAPIError",
   status |-> IF CodeOf(status) = "UNKNOWN_ERROR" THEN 500 ELSE status,
   code |-> CodeOf(status), message |-> message]

\* NoCloudAPIError.fromStatus(status, message)
fromStatus(status, message) ==
  [name |-> "NoCloudAPIError", status |-> status, code |-> CodeOf(status),
   message |-> message]

ForeignError(name, message) ==
  [name |-> name, status |-> 0, code |-> "undefined", message |-> message]

\* what the platform throws: fetch on a network failure, Response.json on a body
\* that is no JSON, reading a property of null, atob on an invalid input
NetworkError == ForeignError("TypeError", <<"fetch failed">>)
\* each failed attempt throws an error object of its own: the second part of the
\* message tells the attempts' errors apart
ThrownError(attempt) == ForeignError("TypeError", <<"fetch failed", ToString(attempt)>>)
JsonSyntaxError == ForeignError("SyntaxError", <<"Unexpected end of JSON input">>)
NullPropertyError == ForeignError("TypeError", <<"Cannot read properties of null">>)
InvalidCharacterError == ForeignError("InvalidCharacterError", <<"Invalid character">>)

NoError == ForeignError("none", <<>>)

(***************************************************************************)
(* Responses.  A response is [status, body]; a body is [kind, message,     *)
(* text]: kind "object" is a JSON object (message "undefined": it has no   *)
(* message field), "null" the JSON value null, "text" a body that is no    *)
(* JSON, "empty" no body at all, "unreadable" a body whose read fails.     *)
(***************************************************************************)
IsOk(status) == status >= 200 /\ status <= 299

BodyParses(body) == body.kind \in {"object", "null"}

\* err.message || "Unknown error"
MessageOr(body, fallback) ==
  IF body.kind = "object" /\ body.message \notin {"undefined", ""}
  THEN <<body.message>>
  ELSE fallback

\* resolveJsonResponse: [threw, error, value]; value is the parsed body
resolveJsonResponse(response) ==
  IF ~IsOk(response.status)
  THEN IF response.body.kind = "null"
       THEN [threw |-> TRUE, error |-> NullPropertyError, value |-> response.body]
       ELSE [threw |-> TRUE,
             error |-> fromStatus(response.status,
                                  MessageOr(response.body, <<"Unknown error">>)),
             value |-> response.body]
  ELSE IF BodyParses(response.body)
       THEN [threw |-> FALSE, error |-> NoError, value |-> response.body]
       ELSE [threw |-> TRUE, error |-> JsonSyntaxError, value |-> response.body]

\* Response.statusText
StatusText(status) ==
  CASE status = 200 -> "OK"
    [] status = 204 -> "No Content"
    [] status = 400 -> "Bad Request"
    [] status = 401 -> "Unauthorized"
    [] status = 403 -> "Forbidden"
    [] status = 404 -> "Not Found"
    [] status = 429 -> "Too Many Requests"
    [] status = 500 -> "Internal Server Error"
    [] status = 503 -> "Service Unavailable"
    [] OTHER -> ""

\* await uploadResponse.text().catch(() => uploadResponse.statusText)
ErrorText(response) ==
  IF response.body.kind = "unreadable" THEN StatusText(response.status)
  ELSE response.body.text

(***************************************************************************)
(* Storage.getBodyInfo.  A FileBody is [kind, type, size, chars]: a Blob   *)
(* or File has a type and a size, an ArrayBuffer a size (its byteLength),  *)
(* a string its chars; any other kind is a value of another type.  A       *)
(* normalized body is [kind, ref, bytes]: "same" is the input itself.      *)
(***************************************************************************)
BlobBody(type, size) == [kind |-> "Blob", type |-> type, size |-> size, chars |-> <<>>]
BufferBody(size) == [kind |-> "ArrayBuffer", type |-> <<>>, size |-> size, chars |-> <<>>]
StringBody(chars) == [kind |-> "string", type |-> <<>>, size |-> 0, chars |-> chars]
NumberBody == [kind |-> "number", type |-> <<>>, size |-> 0, chars |-> <<>>]

NoBody == [kind |-> "none", type |-> <<>>, size |-> 0, chars |-> <<>>]
NoPayload == [kind |-> "none", ref |-> NoBody, bytes |-> <<>>]

\* new Blob([bytes.buffer])
BlobOf(bytes) == [kind |-> "Blob", ref |-> NoBody, bytes |-> bytes]

\* the number of bytes a PUT of the normalized body sends
PayloadLength(payload) ==
  IF payload.kind = "same" THEN payload.ref.size ELSE Len(payload.bytes)

BodyInfo(contentType, size, normalizedBody) ==
  [threw |-> FALSE, error |-> NoError, contentType |-> contentType, size |-> size,
   normalizedBody |-> normalizedBody]

BodyInfoThrow(error) ==
  [threw |-> TRUE, error |-> error, contentType |-> <<>>, size |-> 0,
   normalizedBody |-> NoPayload]

\* mutant: a body of no known type is passed on as application/octet-stream
getBodyInfo_AcceptsAny(body) ==
  IF body.kind = "Blob"
  THEN BodyInfo(IF normalizeMimeType(body.type) # <<>>
                THEN normalizeMimeType(body.type) ELSE OctetStream,
                body.size, [kind |-> "same", ref |-> body, bytes |-> <<>>])
  ELSE BodyInfo(OctetStream, body.size, [kind |-> "same", ref |-> body, bytes |-> <<>>])

\* mutant: the size of a text string is its length in characters, not in bytes
getBodyInfo_StringLength(body) ==
  IF body.kind = "string" /\ detectBase64MimeType(body.chars) = NullType
  THEN BodyInfo(TextPlain, Len(body.chars), BlobOf(TextEncode(body.chars)))
  ELSE IF body.kind = "Blob"
  THEN BodyInfo(IF normalizeMimeType(body.type) # <<>>
                THEN normalizeMimeType(body.type) ELSE OctetStream,
                body.size, [kind |-> "same", ref |-> body, bytes |-> <<>>])
  ELSE IF body.kind = "ArrayBuffer"
  THEN BodyInfo(OctetStream, body.size, [kind |-> "same", ref |-> body, bytes |-> <<>>])
  ELSE IF body.kind = "string"
  THEN LET rawBase64 == extractBase64Data(body.chars) IN
       IF AtobThrows(rawBase64)
       THEN BodyInfoThrow(InvalidCharacterError)
       ELSE BodyInfo(detectBase64MimeType(body.chars), Len(decodeBase64(rawBase64)),
                     BlobOf(decodeBase64(rawBase64)))
  ELSE BodyInfoThrow(fromStatus(400, <<"Unsupported body type">>))

\* mutant: a Blob with no type of its own gets no default type
getBodyInfo_NoDefaultType(body) ==
  IF body.kind = "Blob"
  THEN BodyInfo(normalizeMimeType(body.type),
                body.size, [kind |-> "same", ref |-> body, bytes |-> <<>>])
  ELSE IF body.kind = "ArrayBuffer"
  THEN BodyInfo(OctetStream, body.size, [kind |-> "same", ref |-> body, bytes |-> <<>>])
  ELSE IF body.kind = "string"
  THEN LET detectedType == detectBase64MimeType(body.chars) IN
       IF detectedType # NullType
       THEN LET rawBase64 == extractBase64Data(body.chars) IN
            IF AtobThrows(rawBase64)
            THEN BodyInfoThrow(InvalidCharacterError)
            ELSE LET decoded == decodeBase64(rawBase64) IN
                 BodyInfo(detectedType, Len(decoded), BlobOf(decoded))
       ELSE LET encoded == TextEncode(body.chars) IN
            BodyInfo(TextPlain, Len(encoded), BlobOf(encoded))
  ELSE BodyInfoThrow(fromStatus(400, <<"Unsupported body type">>))

getBodyInfo(body) ==
  IF body.kind = "Blob"
  THEN BodyInfo(IF normalizeMimeType(body.type) # <<>>
                THEN normalizeMimeType(body.type) ELSE OctetStream,
                body.size, [kind |-> "same", ref |-> body, bytes |-> <<>>])
  ELSE IF body.kind = "ArrayBuffer"
  THEN BodyInfo(OctetStream, body.size, [kind |-> "same", ref |-> body, bytes |-> <<>>])
  ELSE IF body.kind = "string"
  THEN LET detectedType == detectBase64MimeType(body.chars) IN
       IF detectedType # NullType
       THEN LET rawBase64 == extractBase64Data(body.chars) IN
            IF AtobThrows(rawBase64)
            THEN BodyInfoThrow(InvalidCharacterError)
            ELSE LET decoded == decodeBase64(rawBase64) IN
                 BodyInfo(detectedType, Len(decoded), BlobOf(decoded))
       ELSE LET encoded == TextEncode(body.chars) IN
            BodyInfo(TextPlain, Len(encoded), BlobOf(encoded))
  ELSE BodyInfoThrow(fromStatus(400, <<"Unsupported body type">>))

(***************************************************************************)
(* The state.                                                              *)
(*   fetcher  the Fetcher's fields, set by its constructor                 *)
(*   calls    the frame of each call of a Storage method: its arguments,   *)
(*            its locals, where it is suspended, and how it settled        *)
(*   net      the requests in flight                                       *)
(*   log      what happened on the wire to each call, in order (a history) *)
(*   minted   how many signed URLs the control plane has granted           *)
(***************************************************************************)
VARIABLES fetcher, calls, net, log, minted

vars == <<fetcher, calls, net, log, minted>>

CallIds == 1..MaxCalls

(***************************************************************************)
(* Requests.  A URL is [origin, path, id, query]; id 0 and query.given     *)
(* FALSE stand for a URL without that part.                                *)
(***************************************************************************)
NoQuery == [given |-> FALSE, contentType |-> <<>>, size |-> 0]

Endpoint(path, id, query) == [path |-> path, id |-> id, query |-> query]

\* Fetcher.buildUrl: `${this.baseUrl}/cloud/${endpoint}`
buildUrl(f, endpoint) ==
  [origin |-> f.baseUrl, path |-> <<"/cloud/", endpoint.path>>, id |-> endpoint.id,
   query |-> endpoint.query]

NoRequestBody == [kind |-> "none", ids |-> <<>>, payload |-> NoPayload]
JsonIds(ids) == [kind |-> "json", ids |-> ids, payload |-> NoPayload]
PayloadBody(kind, payload) == [kind |-> kind, ids |-> <<>>, payload |-> payload]

NoHeaders == [h \in {} |-> <<>>]

Options(method, headers, body) == [method |-> method, headers |-> headers, body |-> body]

Request(plane, url, options, attempt) ==
  [plane |-> plane, method |-> options.method, url |-> url,
   headers |-> options.headers, body |-> options.body, attempt |-> attempt]

\* mutant: the Authorization header is laid over the caller's headers
FetcherRequest_KeyOverrides(f, endpoint, options, attempt) ==
  Request("control", buildUrl(f, endpoint),
          Options(options.method,
                  ("Authorization" :> <<"Bearer ", f.apiKey>>) @@ options.headers,
                  options.body),
          attempt)

\* the fetch that Fetcher.fetch hands to withRetry: the caller's options with the
\* Authorization header under the caller's headers
FetcherRequest(f, endpoint, options, attempt) ==
  Request("control", buildUrl(f, endpoint),
          Options(options.method,
                  options.headers @@ ("Authorization" :> <<"Bearer ", f.apiKey>>),
                  options.body),
          attempt)

(***************************************************************************)
(* What the control plane grants: a SignedUrlResponse.                     *)
(***************************************************************************)
Grant(g) ==
  [url |-> [origin |-> "https://store", path |-> <<"/upload/">>, id |-> g,
            query |-> NoQuery],
   expiresAt |-> <<"expires", g>>,
   mediaId |-> <<"media", g>>,
   mediaUrl |-> <<"https://cdn/", g>>]

NoGrant == Grant(0)

(***************************************************************************)
(* What a call settles with.                                               *)
(***************************************************************************)
Undefined == [kind |-> "undefined", id |-> <<"media", 0>>, url |-> <<"https://cdn/", 0>>,
              grant |-> NoGrant]
NullValue == [Undefined EXCEPT !.kind = "null"]
UploadResponse(id, url) == [Undefined EXCEPT !.kind = "UploadResponse", !.id = id, !.url = url]
SignedUrlResponse(grant) == [Undefined EXCEPT !.kind = "SignedUrlResponse", !.grant = grant]

(***************************************************************************)
(* A call's frame.                                                         *)
(*   pc: "idle", "fetch" (awaiting an attempt of this.fetch), "delay"      *)
(*   (awaiting delay(delayMs)), "put" (awaiting the fetch of the signed    *)
(*   URL), "resolved", "rejected"                                          *)
(***************************************************************************)
\* no Response yet
NoResponse == [status |-> 0, body |-> [kind |-> "empty", message |-> "undefined", text |-> ""]]

IdleCall ==
  [op |-> "idle", pc |-> "idle",
   body |-> NoBody, metadata |-> "undefined",
   ids |-> <<>>, bare |-> FALSE, single |-> FALSE,
   contentType |-> <<>>, size |-> 0, normalizedBody |-> NoPayload,
   endpoint |-> Endpoint("", 0, NoQuery),
   options |-> Options("GET", NoHeaders, NoRequestBody),
   attempt |-> 0, lastError |-> NoError,
   i |-> 0, grant |-> NoGrant, status |-> 0, rawBase64 |-> <<>>,
   response |-> NoResponse, parsed |-> NoResponse.body,
   value |-> Undefined, error |-> NoError]

\* an effect of a step of a call: its frame afterwards and the requests it issues
Effect(call, reqs) == [call |-> call, reqs |-> reqs]

Resolve(call, value) == Effect([call EXCEPT !.pc = "resolved", !.value = value], <<>>)
Reject(call, error) == Effect([call EXCEPT !.pc = "rejected", !.error = error], <<>>)

(***************************************************************************)
(* Fetcher.fetch and withRetry.                                            *)
(***************************************************************************)
\* this.fetch(endpoint, options): withRetry runs its first attempt
FetcherFetch(f, call, endpoint, options) ==
  Effect([call EXCEPT !.pc = "fetch", !.endpoint = endpoint, !.options = options,
                      !.attempt = 0, !.lastError = NoError],
         <<FetcherRequest(f, endpoint, options, 0)>>)

\* Fetcher.fetch called by a caller of its own: the promise resolves with the
\* Response of the attempt that did not throw
fetchReturn(call, response) ==
  Effect([call EXCEPT !.pc = "resolved", !.response = response,
                      !.status = response.status], <<>>)

\* options.retries ?? this.retryCount (Storage passes no retries)
Retries(f) == f.retryCount

\* mutant: attempt <= retries in the catch, one attempt too many
withRetryCatch_OffByOne(f, call, error) ==
  IF call.attempt <= Retries(f)
  THEN Effect([call EXCEPT !.pc = "delay", !.lastError = error], <<>>)
  ELSE Reject([call EXCEPT !.lastError = error], error)

\* withRetry's catch: the attempt threw
withRetryCatch(f, call, error) ==
  IF call.attempt < Retries(f)
  THEN Effect([call EXCEPT !.pc = "delay", !.lastError = error], <<>>)
  ELSE Reject([call EXCEPT !.lastError = error], error)

\* withRetry's loop after the delay: the next attempt
withRetryNext(f, call) ==
  Effect([call EXCEPT !.pc = "fetch", !.attempt = call.attempt + 1],
         <<FetcherRequest(f, call.endpoint, call.options, call.attempt + 1)>>)

(***************************************************************************)
(* Storage.generateSignedUrl, upload, uploadStream.                        *)
(***************************************************************************)
\* generateSignedUrl up to its await: the query holds contentType and size
generateSignedUrl(f, call, contentType, size, metadata) ==
  FetcherFetch(f, call,
               Endpoint("storage/signed-url", 0,
                        [given |-> TRUE, contentType |-> contentType, size |-> size]),
               Options("GET", NoHeaders, NoRequestBody))

\* generateSignedUrl after its await
generateSignedUrlReturn(call, response, grant) ==
  LET r == resolveJsonResponse(response) IN
  IF r.threw THEN Reject(call, r.error)
  ELSE IF r.value.kind = "null" THEN Resolve(call, NullValue)
  ELSE Resolve(call, SignedUrlResponse(grant))

\* upload up to its first await
upload(f, call, body, metadata) ==
  LET info == getBodyInfo(body)
      c1   == [call EXCEPT !.op = "upload", !.body = body, !.metadata = metadata]
  IN IF info.threw THEN Reject(c1, info.error)
     ELSE generateSignedUrl(f,
            [c1 EXCEPT !.contentType = info.contentType, !.size = info.size,
                       !.normalizedBody = info.normalizedBody],
            info.contentType, info.size, metadata)

\* mutant: the PUT is sent with the client's Authorization header
PutRequest_WithBearer(url, size, body) ==
  Request("data", url,
          Options("PUT",
                  ("Content-Length" :> <<size>>)
                    @@ ("Authorization" :> <<"Bearer ", fetcher.apiKey>>),
                  body), 0)

\* the data-plane fetch(url, {method: "PUT", headers, body})
PutRequest(url, size, body) ==
  Request("data", url, Options("PUT", "Content-Length" :> <<size>>, body), 0)

\* mutant: the answer to the signed-URL request is not resolved, the PUT follows
\* whatever it was
uploadPut_IgnoresSignFailure(call, response, grant) ==
  Effect([call EXCEPT !.pc = "put", !.grant = grant],
         <<PutRequest(grant.url, call.size,
                      PayloadBody(IF call.op = "upload" THEN "payload" ELSE "stream",
                                  call.normalizedBody))>>)

\* mutant: the signed URL is kept in one place for all calls, where the first
\* one granted stays
uploadPut_SharedGrant(call, response, grant) ==
  LET r == resolveJsonResponse(response) IN
  IF r.threw THEN Reject(call, r.error)
  ELSE IF r.value.kind = "null" THEN Reject(call, NullPropertyError)
  ELSE Effect([call EXCEPT !.pc = "put", !.grant = Grant(1)],
              <<PutRequest(Grant(1).url, call.size,
                           PayloadBody(IF call.op = "upload" THEN "payload" ELSE "stream",
                                       call.normalizedBody))>>)

\* upload between the await of generateSignedUrl and the await of the PUT;
\* destructuring null throws
uploadPut(call, response, grant) ==
  LET r == resolveJsonResponse(response) IN
  IF r.threw THEN Reject(call, r.error)
  ELSE IF r.value.kind = "null" THEN Reject(call, NullPropertyError)
  ELSE Effect([call EXCEPT !.pc = "put", !.grant = grant],
              <<PutRequest(grant.url, call.size,
                           PayloadBody(IF call.op = "upload" THEN "payload" ELSE "stream",
                                       call.normalizedBody))>>)

UploadFailedPrefix(op) ==
  IF op = "upload" THEN "Failed to upload file to R2: "
  ELSE "Failed to upload stream to R2: "

\* mutant: a PUT answered with a non-2xx status is sent once more
uploadReturn_RetriesPut(call, uploadResponse) ==
  IF ~IsOk(uploadResponse.status) /\ call.lastError = NoError
  THEN Effect([call EXCEPT !.lastError = NetworkError],
              <<PutRequest(call.grant.url, call.size,
                           PayloadBody(IF call.op = "upload" THEN "payload" ELSE "stream",
                                       call.normalizedBody))>>)
  ELSE IF ~IsOk(uploadResponse.status)
  THEN Reject(call, fromStatus(uploadResponse.status,
                               <<UploadFailedPrefix(call.op), ErrorText(uploadResponse)>>))
  ELSE Resolve(call, UploadResponse(call.grant.mediaId, call.grant.mediaUrl))

\* mutant: a failed PUT is thrown as a plain Error
uploadReturn_PlainError(call, uploadResponse) ==
  IF ~IsOk(uploadResponse.status)
  THEN Reject(call, ForeignError("Error",
                                 <<UploadFailedPrefix(call.op), ErrorText(uploadResponse)>>))
  ELSE Resolve(call, UploadResponse(call.grant.mediaId, call.grant.mediaUrl))

\* mutant: uploadResponse.ok is not tested
uploadReturn_NoOkCheck(call, uploadResponse) ==
  Resolve(call, UploadResponse(call.grant.mediaId, call.grant.mediaUrl))

\* mutant: a PUT answered with a non-2xx status leaves the upload waiting
uploadReturn_WaitsOnFailure(call, uploadResponse) ==
  IF ~IsOk(uploadResponse.status)
  THEN Effect(call, <<>>)
  ELSE Resolve(call, UploadResponse(call.grant.mediaId, call.grant.mediaUrl))

\* upload and uploadStream after the await of the PUT
uploadReturn(call, uploadResponse) ==
  IF ~IsOk(uploadResponse.status)
  THEN Reject(call, fromStatus(uploadResponse.status,
                               <<UploadFailedPrefix(call.op), ErrorText(uploadResponse)>>))
  ELSE Resolve(call, UploadResponse(call.grant.mediaId, call.grant.mediaUrl))

\* mutant: the stream is measured, its length replaces the caller's contentLength
uploadStream_Measures(f, call, stream, contentType, contentLength, metadata) ==
  generateSignedUrl(f,
    [call EXCEPT !.op = "uploadStream", !.metadata = metadata,
                 !.contentType = contentType, !.size = Len(stream.bytes),
                 !.normalizedBody = stream],
    contentType, Len(stream.bytes), metadata)

\* uploadStream up to its first await; the stream is carried as normalizedBody
uploadStream(f, call, stream, contentType, contentLength, metadata) ==
  generateSignedUrl(f,
    [call EXCEPT !.op = "uploadStream", !.metadata = metadata,
                 !.contentType = contentType, !.size = contentLength,
                 !.normalizedBody = stream],
    contentType, contentLength, metadata)

(***************************************************************************)
(* Storage.delete.                                                         *)
(***************************************************************************)
BATCH_SIZE == 100

\* mutant: Math.floor for Math.ceil, the last partial batch is never sent
totalBatches_Floor(mediaId) == Len(mediaId) \div BATCH_SIZE

totalBatches(mediaId) == CeilDiv(Len(mediaId), BATCH_SIZE)

\* mediaId.slice(start, end) of the loop's round i
BatchSlice(mediaId, i) ==
  LET start == i * BATCH_SIZE
      end   == Min(start + BATCH_SIZE, Len(mediaId))
  IN SubSeq(mediaId, start + 1, end)

\* the single-id path
deleteSingle(f, call, id) ==
  FetcherFetch(f, [call EXCEPT !.single = TRUE],
               Endpoint("storage/", id, NoQuery),
               Options("DELETE", NoHeaders, NoRequestBody))

\* mutant: the batches are requested together (Promise.all), not one by one
deleteLoop_AllAtOnce(f, call, i) ==
  IF i < totalBatches(call.ids)
  THEN Effect([call EXCEPT !.pc = "fetch", !.i = i, !.attempt = 0,
                 !.endpoint = Endpoint("storage/bulk", 0, NoQuery),
                 !.options = Options("DELETE", "Content-Type" :> <<"application/json">>,
                                     JsonIds(BatchSlice(call.ids, i)))],
              [k \in 1..(totalBatches(call.ids) - i) |->
                 FetcherRequest(f, Endpoint("storage/bulk", 0, NoQuery),
                   Options("DELETE", "Content-Type" :> <<"application/json">>,
                           JsonIds(BatchSlice(call.ids, i + k - 1))), 0)])
  ELSE Resolve([call EXCEPT !.i = i], Undefined)

\* the loop from its test at round i to the await of this.fetch
deleteLoop(f, call, i) ==
  IF i < totalBatches(call.ids)
  THEN FetcherFetch(f, [call EXCEPT !.i = i],
                    Endpoint("storage/bulk", 0, NoQuery),
                    Options("DELETE", "Content-Type" :> <<"application/json">>,
                            JsonIds(BatchSlice(call.ids, i))))
  ELSE Resolve([call EXCEPT !.i = i], Undefined)

\* mutant: the tests for 0 and for 1 merged into length <= 1; mediaId[0] of an
\* empty array is undefined (id 0)
delete_EmptyAsSingle(f, call, mediaId, bare) ==
  LET c1 == [call EXCEPT !.op = "delete", !.ids = mediaId, !.bare = bare] IN
  IF bare THEN deleteSingle(f, c1, mediaId[1])
  ELSE IF Len(mediaId) <= 1
       THEN deleteSingle(f, c1, IF Len(mediaId) = 0 THEN 0 ELSE mediaId[1])
  ELSE deleteLoop(f, c1, 0)

\* mutant: no single-id path for an array of one id
delete_NoSingleCheck(f, call, mediaId, bare) ==
  LET c1 == [call EXCEPT !.op = "delete", !.ids = mediaId, !.bare = bare] IN
  IF bare THEN deleteSingle(f, c1, mediaId[1])
  ELSE IF Len(mediaId) = 0 THEN Resolve(c1, Undefined)
  ELSE deleteLoop(f, c1, 0)

\* delete up to its first await; bare: mediaId is one id, not an array
delete(f, call, mediaId, bare) ==
  LET c1 == [call EXCEPT !.op = "delete", !.ids = mediaId, !.bare = bare] IN
  IF bare THEN deleteSingle(f, c1, mediaId[1])
  ELSE IF Len(mediaId) = 0 THEN Resolve(c1, Undefined)
  ELSE IF Len(mediaId) = 1 THEN deleteSingle(f, c1, mediaId[1])
  ELSE deleteLoop(f, c1, 0)

\* mutant: the result of resolveJsonResponse is not awaited, a failed batch is
\* followed by the next one
deleteResume_IgnoresFailure(f, call, response) ==
  IF call.single THEN Resolve(call, Undefined)
  ELSE deleteLoop(f, call, call.i + 1)

\* mutant: the single-id path returns without resolving the response
deleteResume_SingleUnresolved(f, call, response) ==
  IF call.single THEN Resolve(call, Undefined)
  ELSE LET r == resolveJsonResponse(response) IN
       IF r.threw THEN Reject(call, r.error)
       ELSE deleteLoop(f, call, call.i + 1)

\* mutant: the error of a failed batch is given the index of the batch
deleteResume_TagsBatch(f, call, response) ==
  LET r == resolveJsonResponse(response) IN
  IF r.threw
  THEN Reject(call, [r.error EXCEPT !.message = @ \o <<" in batch ", ToString(call.i)>>])
  ELSE IF call.single THEN Resolve(call, Undefined)
  ELSE deleteLoop(f, call, call.i + 1)

\* delete after an await of this.fetch
deleteResume(f, call, response) ==
  LET r == resolveJsonResponse(response) IN
  IF r.threw THEN Reject(call, r.error)
  ELSE IF call.single THEN Resolve(call, Undefined)
  ELSE deleteLoop(f, call, call.i + 1)

(***************************************************************************)
(* The callers' inputs and the network's answers.                          *)
(***************************************************************************)
TextPlainCharset == <<"t","e","x","t","/","p","l","a","i","n",";"," ","c","h","a","r","s","e","t","=","u","t","f","-","8">>
StrHi == <<"h","i","!">>
StrHello == <<"h","e_acute","l","l","o">>
StrDataPng == <<"d","a","t","a",":","i","m","a","g","e","/","p","n","g",";","b","a","s","e","6","4",",","i","V","B","O","R","w","0","K","G","g","o","=">>
StrRawJpeg == <<"/","9","j","/","4","A","=","=">>
StrRawMp4 == <<"A","A","A","A">>
StrDataPlain == <<"d","a","t","a",":","t","e","x","t","/","p","l","a","i","n",",","h","i">>
StrMp4Text == <<"A","A","A","A"," ","h","i">>

Bodies ==
  { BlobBody(TextPlain, 15), BlobBody(TextPlainCharset, 4), BlobBody(<<>>, 2),
    BufferBody(8),
    StringBody(StrHi), StringBody(StrHello), StringBody(StrDataPng),
    StringBody(StrRawJpeg), StringBody(StrRawMp4), StringBody(StrDataPlain),
    StringBody(StrMp4Text),
    NumberBody }

FewBodies == { BlobBody(TextPlain, 15), NumberBody }

Metadatas == {"undefined", "metadata-1"}

\* a ReadableStream and the contentType and contentLength its caller declares
StreamOf(bytes) == [kind |-> "stream", ref |-> NoBody, bytes |-> bytes]

Streams ==
  { [stream |-> StreamOf(<<104, 105, 33>>), contentType |-> TextPlain, contentLength |-> 3],
    [stream |-> StreamOf(<<104, 105, 33>>), contentType |-> VideoMp4, contentLength |-> 5] }

FewStreams ==
  { [stream |-> StreamOf(<<104, 105, 33>>), contentType |-> TextPlain, contentLength |-> 3] }

\* the id collections: n ids, all different or repeating with period 3
IdsOf(n, distinct) == [k \in 1..n |-> IF distinct THEN k ELSE 1 + (k % 3)]

Lengths ==
  {0, 1, 2, BATCH_SIZE - 1, BATCH_SIZE, BATCH_SIZE + 1, 2 * BATCH_SIZE, MaxIds}
    \cap 0..MaxIds

DeleteArgs ==
  { [ids |-> IdsOf(n, d), bare |-> FALSE] : n \in Lengths, d \in BOOLEAN }
    \cup { [ids |-> <<id>>, bare |-> TRUE] : id \in {1, 7} }

FewDeleteArgs ==
  { [ids |-> IdsOf(BATCH_SIZE + 1, TRUE), bare |-> FALSE], [ids |-> <<7>>, bare |-> TRUE] }

Statuses == {200, 204, 400, 401, 404, 429, 500, 503}
FewStatuses == {200, 500}

ControlBodies ==
  { [kind |-> "object", message |-> "undefined", text |-> ""],
    [kind |-> "object", message |-> "", text |-> ""],
    [kind |-> "object", message |-> "Quota exceeded", text |-> ""],
    [kind |-> "null", message |-> "undefined", text |-> ""],
    [kind |-> "text", message |-> "undefined", text |-> "Bad Gateway"],
    [kind |-> "empty", message |-> "undefined", text |-> ""] }

FewControlBodies == { [kind |-> "object", message |-> "undefined", text |-> ""] }

StoreBodies ==
  { [kind |-> "text", message |-> "undefined", text |-> "AccessDenied"],
    [kind |-> "empty", message |-> "undefined", text |-> ""],
    [kind |-> "unreadable", message |-> "undefined", text |-> ""] }

FewStoreBodies == { [kind |-> "empty", message |-> "undefined", text |-> ""] }

\* a 204 (No Content) response has no body
Responses(statuses, bodies) ==
  { r \in { [status |-> s, body |-> b] : s \in statuses, b \in bodies } :
      r.status = 204 => r.body.kind = "empty" }

(***************************************************************************)
(* The log.                                                                *)
(***************************************************************************)
\* an event of call c: "request" (req is issued), "throw" (req's fetch threw),
\* "delay" (delay(delayMs) begins), "response" (req is answered with a status
\* and a body of a kind; grant numbers the signed URL the body grants, 0: none)
Event(ev, c, req, status, kind, grant) ==
  [ev |-> ev, call |-> c, req |-> req, status |-> status, kind |-> kind, grant |-> grant]

RequestEvents(c, reqs) == [k \in 1..Len(reqs) |-> Event("request", c, reqs[k], 0, "none", 0)]

\* a step of call c: eff is its effect, done the request it consumed (a set),
\* events what the log gains before the requests it issues
Step(c, eff, done, events) ==
  /\ calls' = [calls EXCEPT ![c] = eff.call]
  /\ net' = (net \ done) \cup { [call |-> c, req |-> eff.reqs[k]] : k \in 1..Len(eff.reqs) }
  /\ log' = [log EXCEPT ![c] = @ \o events \o RequestEvents(c, eff.reqs)]

InFlight(c, plane) == { m \in net : m.call = c /\ m.req.plane = plane }

(***************************************************************************)
(* The actions.                                                            *)
(***************************************************************************)
\* new Fetcher({apiKey, retries})
Fetcher(retries) ==
  [apiKey |-> "key-1", baseUrl |-> "https://api.nonefivem.com",
   retryCount |-> retries, retryDelayMs |-> 1000]

Init ==
  /\ fetcher \in { Fetcher(r) : r \in 0..MaxRetries }
  /\ calls = [c \in CallIds |-> IdleCall]
  /\ net = {}
  /\ log = [c \in CallIds |-> <<>>]
  /\ minted = 0

CallGenerateSignedUrl(c, streams, metadatas) ==
  /\ calls[c].pc = "idle"
  /\ \E a \in streams, metadata \in metadatas :
       Step(c, generateSignedUrl(fetcher,
                 [calls[c] EXCEPT !.op = "generateSignedUrl", !.metadata = metadata],
                 a.contentType, a.contentLength, metadata),
            {}, <<>>)
  /\ UNCHANGED <<fetcher, minted>>

CallUpload(c, bodies, metadatas) ==
  /\ calls[c].pc = "idle"
  /\ \E body \in bodies, metadata \in metadatas :
       Step(c, upload(fetcher, calls[c], body, metadata), {}, <<>>)
  /\ UNCHANGED <<fetcher, minted>>

CallUploadStream(c, streams, metadatas) ==
  /\ calls[c].pc = "idle"
  /\ \E a \in streams, metadata \in metadatas :
       Step(c, uploadStream(fetcher, calls[c], a.stream, a.contentType,
                            a.contentLength, metadata),
            {}, <<>>)
  /\ UNCHANGED <<fetcher, minted>>

CallDelete(c, args) ==
  /\ calls[c].pc = "idle"
  /\ \E a \in args :
       Step(c, delete(fetcher, calls[c], a.ids, a.bare), {}, <<>>)
  /\ UNCHANGED <<fetcher, minted>>

\* an attempt of this.fetch throws (a network failure)
FetchThrows(c) ==
  /\ calls[c].pc = "fetch"
  /\ \E m \in InFlight(c, "control") :
       LET eff == withRetryCatch(fetcher, calls[c], ThrownError(m.req.attempt)) IN
       Step(c, eff, {m},
            <<Event("throw", c, m.req, 0, "none", 0)>>
              \o IF eff.call.pc = "delay"
                 THEN <<Event("delay", c, m.req, 0, "none", 0)>> ELSE <<>>)
  /\ UNCHANGED <<fetcher, minted>>

\* delay(delayMs) is over
DelayElapsed(c) ==
  /\ calls[c].pc = "delay"
  /\ Step(c, withRetryNext(fetcher, calls[c]), {}, <<>>)
  /\ UNCHANGED <<fetcher, minted>>

\* mutant: the attempt throws on a non-2xx response, which is retried
Resume_RetriesNon2xx(f, call, response, grant) ==
  IF ~IsOk(response.status) /\ call.attempt < Retries(f)
  THEN withRetryNext(f, call)
  ELSE CASE call.op = "generateSignedUrl" -> generateSignedUrlReturn(call, response, grant)
         [] call.op \in {"upload", "uploadStream"} -> uploadPut(call, response, grant)
         [] call.op = "delete" -> deleteResume(f, call, response)
         [] call.op = "fetch" -> fetchReturn(call, response)

\* the code after `await this.fetch(...)` of the method the call is in
Resume(f, call, response, grant) ==
  CASE call.op = "generateSignedUrl" -> generateSignedUrlReturn(call, response, grant)
    [] call.op \in {"upload", "uploadStream"} -> uploadPut(call, response, grant)
    [] call.op = "delete" -> deleteResume(f, call, response)
    [] call.op = "fetch" -> fetchReturn(call, response)

\* the control plane grants a signed URL with each 2xx JSON object it answers a
\* signed-url request with
Grants(req, response) ==
  /\ req.url.query.given
  /\ IsOk(response.status)
  /\ response.body.kind = "object"

\* an attempt of this.fetch returns a response
FetchResponds(c, responses) ==
  /\ calls[c].pc = "fetch"
  /\ \E m \in InFlight(c, "control"), response \in responses :
       /\ Step(c, Resume(fetcher, calls[c], response, Grant(minted + 1)), {m},
               <<Event("response", c, m.req, response.status, response.body.kind,
                       IF Grants(m.req, response) THEN minted + 1 ELSE 0)>>)
       /\ minted' = IF Grants(m.req, response) THEN minted + 1 ELSE minted
  /\ UNCHANGED fetcher

\* the fetch of the signed URL throws
PutThrows(c) ==
  /\ calls[c].pc = "put"
  /\ \E m \in InFlight(c, "data") :
       Step(c, Reject(calls[c], NetworkError), {m}, <<Event("throw", c, m.req, 0, "none", 0)>>)
  /\ UNCHANGED <<fetcher, minted>>

\* the fetch of the signed URL returns a response
PutResponds(c, responses) ==
  /\ calls[c].pc = "put"
  /\ \E m \in InFlight(c, "data"), response \in responses :
       Step(c, uploadReturn(calls[c], response), {m},
            <<Event("response", c, m.req, response.status, response.body.kind, 0)>>)
  /\ UNCHANGED <<fetcher, minted>>

\* one call at a time, every input and every answer
Next ==
  \E c \in {1} :
    \/ CallGenerateSignedUrl(c, Streams, Metadatas)
    \/ CallUpload(c, Bodies, Metadatas)
    \/ CallUploadStream(c, Streams, Metadatas)
    \/ CallDelete(c, DeleteArgs)
    \/ FetchThrows(c)
    \/ DelayElapsed(c)
    \/ FetchResponds(c, Responses(Statuses, ControlBodies))
    \/ PutThrows(c)
    \/ PutResponds(c, Responses(Statuses, StoreBodies))

Spec == Init /\ [][Next]_vars

\* Spec with a network that answers: a request in flight is answered or fails,
\* and the timer of a delay fires
Answered ==
  \E c \in {1} :
    \/ FetchThrows(c)
    \/ FetchResponds(c, Responses(Statuses, ControlBodies))
    \/ PutThrows(c)
    \/ PutResponds(c, Responses(Statuses, StoreBodies))

TimerFires == \E c \in {1} : DelayElapsed(c)

SpecLive == Init /\ [][Next]_vars /\ WF_vars(Answered) /\ WF_vars(TimerFires)

\* concurrent calls on one client, fewer inputs and answers
NextConc ==
  \E c \in CallIds :
    \/ CallUpload(c, FewBodies, {"undefined"})
    \/ CallUploadStream(c, FewStreams, {"undefined"})
    \/ CallDelete(c, FewDeleteArgs)
    \/ FetchThrows(c)
    \/ DelayElapsed(c)
    \/ FetchResponds(c, Responses(FewStatuses, FewControlBodies))
    \/ PutThrows(c)
    \/ PutResponds(c, Responses(FewStatuses, FewStoreBodies))

InitConc == Init /\ fetcher.retryCount = 1

SpecConc == InitConc /\ [][NextConc]_vars

\* the headers a caller of Fetcher.fetch gives, as a plain object: none, its
\* own headers, an Authorization of its own
CallerHeaders ==
  { NoHeaders,
    "Content-Type" :> <<"application/json">>,
    "X-Request-Id" :> <<"r-1">>,
    "Authorization" :> <<"Basic ", "own">>,
    ("Authorization" :> <<"Basic ", "own">>) @@ ("X-Request-Id" :> <<"r-1">>) }

\* Fetcher.fetch(endpoint, {method, headers})
CallFetch(c, headers) ==
  /\ calls[c].pc = "idle"
  /\ \E h \in headers, method \in {"GET", "DELETE"} :
       Step(c, FetcherFetch(fetcher, [calls[c] EXCEPT !.op = "fetch"],
                            Endpoint("storage/", 1, NoQuery),
                            Options(method, h, NoRequestBody)),
            {}, <<>>)
  /\ UNCHANGED <<fetcher, minted>>

\* the Transport on its own: one call of Fetcher.fetch and its attempts
NextFetch ==
  \E c \in {1} :
    \/ CallFetch(c, CallerHeaders)
    \/ FetchThrows(c)
    \/ DelayElapsed(c)
    \/ FetchResponds(c, Responses(Statuses, ControlBodies))

SpecFetch == Init /\ [][NextFetch]_vars

(***************************************************************************)
(* The helpers called on their own: NoCloudAPIError.fromStatus with any    *)
(* status, and the decoding of any string that is detected as base64.      *)
(***************************************************************************)
HttpStatuses == 100..MaxStatus

ErrorMessages == { <<"Unknown error">>, <<"Quota exceeded">>, <<"">> }

\* NoCloudAPIError.fromStatus(status, message): the frame keeps the argument and
\* the error that is returned
CallFromStatus(c, statuses, messages) ==
  /\ calls[c].pc = "idle"
  /\ \E status \in statuses, message \in messages :
       Step(c, Effect([calls[c] EXCEPT !.op = "fromStatus", !.pc = "resolved",
                                       !.status = status,
                                       !.error = fromStatus(status, message)], <<>>),
            {}, <<>>)
  /\ UNCHANGED <<fetcher, minted>>

\* the strings: a signature or a data-URL head, then up to MaxTail characters
Base64Heads ==
  { <<"A","A","A","A">>, <<"/","9","j","/">>,
    <<"d","a","t","a",":","i","m","a","g","e","/","p","n","g",";","b","a","s","e","6","4",",">> }

Base64TailChars == {"A", "Q", "=", " "}

Base64Tails == UNION { [1..n -> Base64TailChars] : n \in 0..MaxTail }

Base64Strings == { head \o tail : head \in Base64Heads, tail \in Base64Tails }

\* the base64 branch of getBodyInfo on its own, with the size that
\* getBase64DecodedSize gives for the same raw string
CallDecodeBase64(c, strings) ==
  /\ calls[c].pc = "idle"
  /\ \E str \in strings :
       LET detectedType == detectBase64MimeType(str)
           rawBase64    == extractBase64Data(str)
           c1 == [calls[c] EXCEPT !.op = "decodeBase64", !.body = StringBody(str),
                                  !.contentType = detectedType]
       IN /\ detectedType # NullType
          /\ Step(c, IF AtobThrows(rawBase64)
                     THEN Reject(c1, InvalidCharacterError)
                     ELSE Effect([c1 EXCEPT !.pc = "resolved",
                                            !.size = getBase64DecodedSize(rawBase64),
                                            !.normalizedBody = BlobOf(decodeBase64(rawBase64))],
                                 <<>>),
                  {}, <<>>)
  /\ UNCHANGED <<fetcher, minted>>

\* the strings given to the detection: a data-URL head (media type, parameters,
\* marker) or none, then a payload that may start with a signature
MediaTypes ==
  { ImagePng, ApplicationPdf, TextPlain, <<"I","m","a","g","e","/","P","N","G">>, <<>> }

DataUrlParams == { <<>>, <<";","c","h","a","r","s","e","t","=","u","t","f","-","8">> }

DataUrlMarkers == { Base64Marker, <<",">> }

DataUrlHeads ==
  { DataPrefix \o mediaType \o params \o marker :
      mediaType \in MediaTypes, params \in DataUrlParams, marker \in DataUrlMarkers }

Payloads ==
  { BASE64_SIGNATURES[k].prefix : k \in 1..Len(BASE64_SIGNATURES) }
    \cup { <<"/","9","j","/","A","A","A","A">>, <<"Q","U","J","D">>, <<"h","i">>,
           <<"h","e_acute","l","l","o">>, <<>> }

DataUrlStrings == { head \o payload : head \in DataUrlHeads \cup {<<>>}, payload \in Payloads }

\* detectBase64MimeType(str) on its own: the frame keeps the string and the type
CallDetectBase64MimeType(c, strings) ==
  /\ calls[c].pc = "idle"
  /\ \E str \in strings :
       Step(c, Effect([calls[c] EXCEPT !.op = "detectBase64MimeType", !.pc = "resolved",
                                       !.body = StringBody(str),
                                       !.contentType = detectBase64MimeType(str)], <<>>),
            {}, <<>>)
  /\ UNCHANGED <<fetcher, minted>>

\* the bodies given to the inspection: text of up to MaxText characters, the
\* strings of the detection, Blobs of several declared types, buffers, a number
MaxText == 3

TextChars == {"h", "e_acute", "euro"}

PlainTexts == UNION { [1..n -> TextChars] : n \in 0..MaxText } \cup { StrHello }

BlobTypes ==
  { TextPlain, TextPlainCharset, ImagePng, <<>>,
    <<";","c","h","a","r","s","e","t","=","u","t","f","-","8">>,
    <<" ","i","m","a","g","e","/","p","n","g"," ",";","q","=","1",";","x">> }

InspectedBodies ==
  { StringBody(str) : str \in PlainTexts \cup DataUrlStrings }
    \cup { BlobBody(type, size) : type \in BlobTypes, size \in {0, 4} }
    \cup { BufferBody(size) : size \in {0, 8} }
    \cup { NumberBody }

\* Storage.getBodyInfo(body) on its own: the frame keeps the body and the three
\* fields of the result, or the error thrown
CallGetBodyInfo(c, bodies) ==
  /\ calls[c].pc = "idle"
  /\ \E body \in bodies :
       LET info == getBodyInfo(body)
           c1   == [calls[c] EXCEPT !.op = "getBodyInfo", !.body = body]
       IN Step(c, IF info.threw
                  THEN Reject(c1, info.error)
                  ELSE Effect([c1 EXCEPT !.pc = "resolved",
                                         !.contentType = info.contentType,
                                         !.size = info.size,
                                         !.normalizedBody = info.normalizedBody], <<>>),
               {}, <<>>)
  /\ UNCHANGED <<fetcher, minted>>

\* extractBase64Data(str) on its own, as getBodyInfo calls it: on a string whose
\* type was detected, and the result goes to decodeBase64
CallExtractBase64Data(c, strings) ==
  /\ calls[c].pc = "idle"
  /\ \E str \in strings :
       LET rawBase64 == extractBase64Data(str)
           c1 == [calls[c] EXCEPT !.op = "extractBase64Data", !.body = StringBody(str),
                                  !.contentType = detectBase64MimeType(str),
                                  !.rawBase64 = rawBase64]
       IN /\ detectBase64MimeType(str) # NullType
          /\ Step(c, IF AtobThrows(rawBase64)
                     THEN Reject(c1, InvalidCharacterError)
                     ELSE Effect([c1 EXCEPT !.pc = "resolved",
                                            !.normalizedBody = BlobOf(decodeBase64(rawBase64))],
                                 <<>>),
                  {}, <<>>)
  /\ UNCHANGED <<fetcher, minted>>

\* the statuses a Response can have
ResponseStatuses == 200..MaxStatus

\* resolveJsonResponse(response) on its own: the frame keeps the response and
\* the parsed body that is returned, or the error thrown
CallResolveJsonResponse(c, responses) ==
  /\ calls[c].pc = "idle"
  /\ \E response \in responses :
       LET r  == resolveJsonResponse(response)
           c1 == [calls[c] EXCEPT !.op = "resolveJsonResponse", !.response = response,
                                  !.status = response.status]
       IN Step(c, IF r.threw
                  THEN Reject(c1, r.error)
                  ELSE Effect([c1 EXCEPT !.pc = "resolved", !.parsed = r.value], <<>>),
               {}, <<>>)
  /\ UNCHANGED <<fetcher, minted>>

NextPure ==
  \E c \in {1} :
    \/ CallFromStatus(c, HttpStatuses, ErrorMessages)
    \/ CallDecodeBase64(c, Base64Strings)
    \/ CallDetectBase64MimeType(c, DataUrlStrings)
    \/ CallGetBodyInfo(c, InspectedBodies)
    \/ CallExtractBase64Data(c, DataUrlStrings)
    \/ CallResolveJsonResponse(c, Responses(ResponseStatuses, ControlBodies))

InitPure == Init /\ fetcher.retryCount = 0

SpecPure == InitPure /\ [][NextPure]_vars

(***************************************************************************)
(* Reading the log.                                                        *)
(***************************************************************************)
IsRequest(e) == e.ev = "request"
IsBulk(e) == e.ev = "request" /\ e.req.url.path = <<"/cloud/", "storage/bulk">>
IsPut(e) == e.ev = "request" /\ e.req.plane = "data"
IsSign(e) == e.ev = "request" /\ e.req.url.path = <<"/cloud/", "storage/signed-url">>

RequestsOf(c) == SelectSeq(log[c], IsRequest)
BulkRequestsOf(c) == SelectSeq(log[c], IsBulk)
PutsOf(c) == SelectSeq(log[c], IsPut)

\* an attempt failed: its fetch threw, or its response is no 2xx, or it is a 2xx
\* whose body is no JSON
IsFailure(e) ==
  \/ e.ev = "throw"
  \/ e.ev = "response" /\ e.req.plane = "control"
       /\ (~(e.status \in 200..299) \/ e.kind \notin {"object", "null"})
  \/ e.ev = "response" /\ e.req.plane = "data" /\ ~(e.status \in 200..299)

NoFailure(c) == \A k \in 1..Len(log[c]) : ~IsFailure(log[c][k])

RECURSIVE Concat(_)
Concat(ss) == IF ss = <<>> THEN <<>> ELSE ss[1] \o Concat(Tail(ss))

IsBatchedDelete(c) == calls[c].op = "delete" /\ ~calls[c].bare /\ Len(calls[c].ids) >= 2

(***************************************************************************)
(* C1.  A delete of n >= 2 ids in which no request fails issues exactly    *)
(* ceil(n/100) bulk-delete requests and nothing else; the k-th (from 0)    *)
(* carries ids[100k .. min(100k+100, n)-1] in order, every batch holds 1   *)
(* to 100 ids, and the batches concatenated give the input collection.     *)
(* While the call runs, what it has issued is a prefix of that partition.  *)
(***************************************************************************)
ExpectedBatch(ids, k) ==
  [j \in 1..((IF 100 * (k + 1) < Len(ids) THEN 100 * (k + 1) ELSE Len(ids)) - 100 * k)
     |-> ids[100 * k + j]]

ExpectedBatchCount(ids) ==
  IF Len(ids) % 100 = 0 THEN Len(ids) \div 100 ELSE (Len(ids) \div 100) + 1

BatchesSent(c) == [k \in 1..Len(RequestsOf(c)) |-> RequestsOf(c)[k].req.body.ids]

C1_BatchPartition ==
  \A c \in CallIds :
    (IsBatchedDelete(c) /\ NoFailure(c)) =>
      /\ calls[c].pc # "rejected"
      /\ \A k \in 1..Len(RequestsOf(c)) :
           /\ IsBulk(RequestsOf(c)[k])
           /\ RequestsOf(c)[k].req.method = "DELETE"
           /\ RequestsOf(c)[k].req.body.kind = "json"
           /\ BatchesSent(c)[k] = ExpectedBatch(calls[c].ids, k - 1)
           /\ Len(BatchesSent(c)[k]) \in 1..100
      /\ Len(RequestsOf(c)) <= ExpectedBatchCount(calls[c].ids)
      /\ calls[c].pc = "resolved" =>
           /\ Len(RequestsOf(c)) = ExpectedBatchCount(calls[c].ids)
           /\ Concat(BatchesSent(c)) = calls[c].ids

\* a delete of more than 200 ids resolved after three requests, none failed
C1_Witness ==
  \E c \in CallIds :
    /\ IsBatchedDelete(c) /\ NoFailure(c)
    /\ Len(calls[c].ids) > 200
    /\ calls[c].pc = "resolved"
    /\ Len(RequestsOf(c)) = 3

(***************************************************************************)
(* C2.  In a batched delete, when the request of batch k fails (its last   *)
(* attempt throws, or it is answered with a non-2xx status), nothing       *)
(* follows in the call: it is rejected with that batch's error and no      *)
(* later batch is issued.  The batches before k were each issued once, in  *)
(* order, and answered successfully; no other request is ever made.        *)
(***************************************************************************)
IsFirstAttempt(e) == e.ev = "request" /\ e.req.attempt = 0
IsSuccess(e) ==
  e.ev = "response" /\ e.status \in 200..299 /\ e.kind \in {"object", "null"}

\* the failure of a request, not of one attempt that is retried
IsFinalFailure(e) ==
  \/ e.ev = "throw" /\ e.req.attempt >= fetcher.retryCount
  \/ e.ev = "response" /\ ~IsSuccess(e)

IssuedOf(c) == SelectSeq(log[c], IsFirstAttempt)
SuccessesOf(c) == SelectSeq(log[c], IsSuccess)

\* the error a failed request of the control plane is surfaced as
IsErrorOf(error, e) ==
  IF e.ev = "throw" THEN error.name = "TypeError" /\ error.status = 0
  ELSE IF e.status \in 200..299 THEN error.name = "SyntaxError"
  ELSE IF e.kind = "null" THEN error.name = "TypeError"
  ELSE error.name = "NoCloudAPIError" /\ error.status = e.status

C2_BatchFailFast ==
  \A c \in CallIds :
    IsBatchedDelete(c) =>
      /\ \A k \in 1..Len(log[c]) :
           IsFinalFailure(log[c][k]) =>
             /\ k = Len(log[c])
             /\ calls[c].pc = "rejected"
             /\ IsErrorOf(calls[c].error, log[c][k])
             /\ Len(SuccessesOf(c)) = Len(IssuedOf(c)) - 1
      /\ calls[c].pc = "rejected" => IsFinalFailure(log[c][Len(log[c])])
      /\ \A k \in 1..Len(RequestsOf(c)) : IsBulk(RequestsOf(c)[k])
      /\ \A k \in 1..Len(IssuedOf(c)) :
           IssuedOf(c)[k].req.body.ids = ExpectedBatch(calls[c].ids, k - 1)
      /\ Len(SuccessesOf(c)) \in {Len(IssuedOf(c)) - 1, Len(IssuedOf(c))}

\* a delete rejected by a non-2xx answer to its third batch
C2_Witness ==
  \E c \in CallIds :
    /\ IsBatchedDelete(c)
    /\ calls[c].pc = "rejected"
    /\ Len(IssuedOf(c)) = 3
    /\ Len(SuccessesOf(c)) = 2
    /\ log[c][Len(log[c])].ev = "response"
    /\ log[c][Len(log[c])].status = 500
    /\ calls[c].error.status = 500

\* a delete rejected because the last attempt of its second batch threw
C2_WitnessThrow ==
  \E c \in CallIds :
    /\ IsBatchedDelete(c)
    /\ calls[c].pc = "rejected"
    /\ Len(IssuedOf(c)) = 2
    /\ log[c][Len(log[c])].ev = "throw"

(***************************************************************************)
(* C3.  Within one batched delete at most one request is in flight at any  *)
(* moment; batches are requested in index order, and batch k+1 is          *)
(* requested only directly after the successful response to batch k (a     *)
(* retried attempt only directly after the delay that follows a throw).    *)
(***************************************************************************)
IsDone(e) == e.ev \in {"response", "throw"}

InFlightOf(c) == { m \in net : m.call = c }

\* the number of first attempts among the first j events of call c
IssuedUpTo(c, j) == Len(SelectSeq(SubSeq(log[c], 1, j), IsFirstAttempt))

C3_BatchesSequential ==
  \A c \in CallIds :
    IsBatchedDelete(c) =>
      /\ Cardinality(InFlightOf(c)) <= 1
      /\ Cardinality(InFlightOf(c)) =
           Len(RequestsOf(c)) - Len(SelectSeq(log[c], IsDone))
      /\ \A j \in 1..Len(log[c]) :
           log[c][j].ev = "request" =>
             /\ log[c][j].req.body.ids = ExpectedBatch(calls[c].ids, IssuedUpTo(c, j) - 1)
             /\ \/ j = 1
                \/ /\ log[c][j].req.attempt = 0
                   /\ IsSuccess(log[c][j - 1])
                   /\ log[c][j - 1].req.body.ids
                        = ExpectedBatch(calls[c].ids, IssuedUpTo(c, j) - 2)
                \/ /\ log[c][j].req.attempt > 0
                   /\ log[c][j - 1].ev = "delay"
                   /\ log[c][j - 1].req.body = log[c][j].req.body

\* the third batch is in flight, directly after the response to the second
C3_Witness ==
  \E c \in CallIds :
    /\ IsBatchedDelete(c)
    /\ Len(IssuedOf(c)) = 3
    /\ Cardinality(InFlightOf(c)) = 1
    /\ Len(SuccessesOf(c)) = 2
    /\ log[c][Len(log[c])].ev = "request"

(***************************************************************************)
(* C4.  delete of an empty collection issues no request and resolves (with *)
(* undefined).                                                             *)
(***************************************************************************)
IsEmptyDelete(c) == calls[c].op = "delete" /\ ~calls[c].bare /\ Len(calls[c].ids) = 0

C4_EmptyDeleteNoop ==
  \A c \in CallIds :
    IsEmptyDelete(c) =>
      /\ calls[c].pc = "resolved"
      /\ calls[c].value.kind = "undefined"
      /\ log[c] = <<>>
      /\ InFlightOf(c) = {}

C4_Witness == \E c \in CallIds : IsEmptyDelete(c) /\ calls[c].pc = "resolved"

(***************************************************************************)
(* C5.  delete of a collection of exactly one id issues the request that   *)
(* delete of the bare id issues: DELETE <base>/cloud/storage/<id> with no  *)
(* body and only the Authorization header, once (plus its retries), and    *)
(* never a bulk-delete request.                                            *)
(***************************************************************************)
IsOneIdDelete(c) == calls[c].op = "delete" /\ Len(calls[c].ids) = 1

SingleDeleteRequest(id, attempt) ==
  [plane |-> "control", method |-> "DELETE",
   url |-> [origin |-> fetcher.baseUrl, path |-> <<"/cloud/", "storage/">>, id |-> id,
            query |-> [given |-> FALSE, contentType |-> <<>>, size |-> 0]],
   headers |-> ("Authorization" :> <<"Bearer ", fetcher.apiKey>>),
   body |-> [kind |-> "none", ids |-> <<>>,
             payload |-> [kind |-> "none",
                          ref |-> [kind |-> "none", type |-> <<>>, size |-> 0, chars |-> <<>>],
                          bytes |-> <<>>]],
   attempt |-> attempt]

C5_OneIdIsSingleDelete ==
  \A c \in CallIds :
    IsOneIdDelete(c) =>
      /\ Len(IssuedOf(c)) = 1
      /\ \A k \in 1..Len(RequestsOf(c)) :
           /\ RequestsOf(c)[k].req = SingleDeleteRequest(calls[c].ids[1], k - 1)
           /\ ~IsBulk(RequestsOf(c)[k])

\* the array form has issued its request
C5_Witness ==
  \E c \in CallIds :
    /\ IsOneIdDelete(c) /\ ~calls[c].bare
    /\ Len(RequestsOf(c)) >= 1
    /\ calls[c].pc = "resolved"

\* so has the bare form
C5_WitnessBare ==
  \E c \in CallIds :
    /\ IsOneIdDelete(c) /\ calls[c].bare
    /\ calls[c].ids = <<1>>
    /\ Len(RequestsOf(c)) >= 1

(***************************************************************************)
(* Reading the log of an upload.                                           *)
(***************************************************************************)
IsUploadCall(c) == calls[c].op \in {"upload", "uploadStream"}

IsControlEvent(e) == e.req.plane = "control"

\* the signed-URL request is answered with a 2xx JSON object: a signed URL
IsSignGranted(e) ==
  /\ e.ev = "response"
  /\ e.req.url.path = <<"/cloud/", "storage/signed-url">>
  /\ e.status \in 200..299
  /\ e.kind = "object"

\* the signed-URL request failed: its last attempt threw, or its answer is no
\* 2xx JSON object
IsSignFailure(e) ==
  /\ e.req.plane = "control"
  /\ \/ e.ev = "throw" /\ e.req.attempt >= fetcher.retryCount
     \/ e.ev = "response" /\ ~IsSignGranted(e)

IsPutResponse(e) == e.ev = "response" /\ e.req.plane = "data"
IsPutThrow(e) == e.ev = "throw" /\ e.req.plane = "data"

GrantedOf(c) == SelectSeq(log[c], IsSignGranted)

\* the number of the signed URL the call was granted, 0: none
GrantOf(c) == IF GrantedOf(c) = <<>> THEN 0 ELSE GrantedOf(c)[1].grant

LastOf(c) == log[c][Len(log[c])]

(***************************************************************************)
(* C6.  The steps of an upload are strictly in order: the body is          *)
(* inspected, then the signed URL is requested (with the content type and  *)
(* size the inspection gave), then the PUT is issued (with that size and   *)
(* normalized body).  A failed inspection leaves the call rejected with no *)
(* request at all; the PUT is issued only directly after the successful    *)
(* answer to the signed-URL request, and a failed signed-URL request ends  *)
(* the call, rejected, with no PUT.                                        *)
(***************************************************************************)
C6_UploadStepsInOrder ==
  \A c \in CallIds :
    IsUploadCall(c) =>
      /\ (calls[c].op = "upload" /\ calls[c].normalizedBody.kind = "none") =>
           /\ log[c] = <<>>
           /\ InFlightOf(c) = {}
           /\ calls[c].pc = "rejected"
      /\ \A j \in 1..Len(log[c]) :
           /\ (log[c][j].ev = "request" /\ ~IsPut(log[c][j])) =>
                /\ IsSign(log[c][j])
                /\ log[c][j].req.method = "GET"
                /\ log[c][j].req.url.query.contentType = calls[c].contentType
                /\ log[c][j].req.url.query.size = calls[c].size
                /\ \A i \in 1..j : ~IsPut(log[c][i])
           /\ IsPut(log[c][j]) =>
                /\ j > 1
                /\ IsSignGranted(log[c][j - 1])
                /\ \A i \in 1..(j - 1) :
                     IsControlEvent(log[c][i]) /\ ~IsSignFailure(log[c][i])
                /\ log[c][j].req.method = "PUT"
                /\ log[c][j].req.headers = ("Content-Length" :> <<calls[c].size>>)
                /\ log[c][j].req.body.payload = calls[c].normalizedBody
           /\ IsSignFailure(log[c][j]) =>
                /\ j = Len(log[c])
                /\ calls[c].pc = "rejected"
                /\ PutsOf(c) = <<>>
                /\ InFlightOf(c) = {}

\* an upload of a string whose PUT is in flight, after a retried signed-URL request
C6_Witness ==
  \E c \in CallIds :
    /\ calls[c].op = "upload"
    /\ calls[c].body.kind = "string"
    /\ Len(PutsOf(c)) = 1
    /\ IsPut(LastOf(c))
    /\ \E j \in 1..Len(log[c]) : log[c][j].ev = "delay"

\* an upload rejected by the answer to its signed-URL request
C6_WitnessSignFails ==
  \E c \in CallIds :
    /\ calls[c].op = "upload"
    /\ calls[c].pc = "rejected"
    /\ log[c] # <<>>
    /\ IsSignFailure(LastOf(c))
    /\ LastOf(c).ev = "response"

\* an upload rejected by the inspection of a data URL that is no base64
C6_WitnessInspectionFails ==
  \E c \in CallIds :
    /\ calls[c].op = "upload"
    /\ calls[c].body.kind = "string"
    /\ calls[c].pc = "rejected"
    /\ log[c] = <<>>

(***************************************************************************)
(* C7.  An upload or uploadStream resolves only after its PUT is answered  *)
(* with a 2xx status, and always then.  The UploadResponse it resolves     *)
(* with is {id: mediaId, url: mediaUrl} of the signed-URL response this    *)
(* call received, the one whose url the PUT went to; nothing of it comes   *)
(* from the PUT's response.                                                *)
(***************************************************************************)
C7_ResultFromSignResponse ==
  \A c \in CallIds :
    IsUploadCall(c) =>
      /\ calls[c].pc = "resolved" =>
           /\ log[c] # <<>>
           /\ IsPutResponse(LastOf(c))
           /\ LastOf(c).status \in 200..299
           /\ Len(GrantedOf(c)) = 1
           /\ GrantOf(c) > 0
           /\ LastOf(c).req.url.id = GrantOf(c)
           /\ calls[c].value.kind = "UploadResponse"
           /\ calls[c].value.id = <<"media", GrantOf(c)>>
           /\ calls[c].value.url = <<"https://cdn/", GrantOf(c)>>
      /\ (log[c] # <<>> /\ IsPutResponse(LastOf(c)) /\ LastOf(c).status \in 200..299) =>
           calls[c].pc = "resolved"
      /\ calls[c].pc # "resolved" => calls[c].value.kind = "undefined"

\* an uploadStream resolved after a 204 to its PUT
C7_Witness ==
  \E c \in CallIds :
    /\ calls[c].op = "uploadStream"
    /\ calls[c].pc = "resolved"
    /\ LastOf(c).status = 204
    /\ calls[c].value.id = <<"media", GrantOf(c)>>

\* an upload resolved after a 200 whose body is text
C7_WitnessText ==
  \E c \in CallIds :
    /\ calls[c].op = "upload"
    /\ calls[c].pc = "resolved"
    /\ LastOf(c).status = 200
    /\ LastOf(c).kind = "text"

(***************************************************************************)
(* C8.  A call of upload or uploadStream issues at most one PUT, as a      *)
(* single attempt, to the signed URL that this call itself was granted.    *)
(* A PUT that throws or is answered with a non-2xx status is the last      *)
(* thing the call does: it is rejected with that failure, nothing is       *)
(* retried.  No signed URL is the target of two PUTs, of one call or of    *)
(* two, and a call that is no upload issues no PUT.  (The control plane    *)
(* answers every signed-URL request with a URL of its own.)                *)
(***************************************************************************)
IsPutFailure(e) ==
  \/ IsPutThrow(e)
  \/ IsPutResponse(e) /\ ~(e.status \in 200..299)

C8_OnePutNeverRetried ==
  /\ \A c \in CallIds :
       /\ Len(PutsOf(c)) <= 1
       /\ ~IsUploadCall(c) => PutsOf(c) = <<>>
       /\ \A j \in 1..Len(log[c]) :
            /\ IsPut(log[c][j]) =>
                 /\ log[c][j].req.attempt = 0
                 /\ GrantOf(c) > 0
                 /\ log[c][j].req.url.id = GrantOf(c)
                 /\ \E i \in 1..(j - 1) : IsSign(log[c][i])
            /\ IsPutFailure(log[c][j]) =>
                 /\ j = Len(log[c])
                 /\ calls[c].pc = "rejected"
                 /\ InFlightOf(c) = {}
                 /\ IF IsPutThrow(log[c][j])
                    THEN calls[c].error.name = "TypeError"
                    ELSE calls[c].error.status = log[c][j].status
  /\ \A c, d \in CallIds :
       c # d => \A j \in 1..Len(PutsOf(c)), k \in 1..Len(PutsOf(d)) :
                  PutsOf(c)[j].req.url # PutsOf(d)[k].req.url

\* two uploads on one client: one rejected by a 500 to its PUT, the other's PUT
\* issued to another URL
C8_Witness ==
  \E c, d \in CallIds :
    /\ c # d
    /\ IsUploadCall(c) /\ IsUploadCall(d)
    /\ Len(PutsOf(c)) = 1 /\ Len(PutsOf(d)) = 1
    /\ calls[c].pc = "rejected"
    /\ IsPutResponse(LastOf(c)) /\ LastOf(c).status = 500

\* an upload rejected because its PUT threw
C8_WitnessThrow ==
  \E c \in CallIds :
    /\ IsUploadCall(c)
    /\ calls[c].pc = "rejected"
    /\ log[c] # <<>>
    /\ IsPutThrow(LastOf(c))

(***************************************************************************)
(* C9.  As stated: when the signed-URL request succeeded and the PUT is    *)
(* answered with a non-2xx status, the upload fails with an error that     *)
(* carries the object store's status and differs in kind (its class and    *)
(* its code) from the error a control-plane response of the same status    *)
(* is surfaced as.                                                         *)
(***************************************************************************)
ErrorKind(error) == <<error.name, error.code>>

\* the call was rejected by a non-2xx answer to its PUT
IsRejectedByStore(c) ==
  /\ IsUploadCall(c)
  /\ log[c] # <<>>
  /\ IsPutResponse(LastOf(c))
  /\ ~(LastOf(c).status \in 200..299)

\* the call was rejected by a non-2xx answer of the control plane
IsRejectedByControl(c) ==
  /\ calls[c].pc = "rejected"
  /\ log[c] # <<>>
  /\ LastOf(c).ev = "response"
  /\ LastOf(c).req.plane = "control"
  /\ ~(LastOf(c).status \in 200..299)

C9_UploadFailedKind ==
  \A c \in CallIds :
    IsRejectedByStore(c) =>
      /\ calls[c].pc = "rejected"
      /\ calls[c].error.status = LastOf(c).status
      /\ \A d \in CallIds :
           (IsRejectedByControl(d) /\ LastOf(d).status = LastOf(c).status) =>
             ErrorKind(calls[d].error) # ErrorKind(calls[c].error)

(***************************************************************************)
(* C9, amended.  When the signed-URL request succeeded and the PUT is      *)
(* answered with a non-2xx status, the upload fails with a NoCloudAPIError *)
(* that carries the object store's status, the code that status maps to,   *)
(* and a message that begins "Failed to upload file to R2: " ("stream" for *)
(* uploadStream).  Its class and its code are those of the error a         *)
(* control-plane response of the same status is surfaced as; the two       *)
(* differ in nothing but the message.                                      *)
(***************************************************************************)
CodeForStatus(status) ==
  IF status = 400 THEN "BAD_REQUEST"
  ELSE IF status = 401 THEN "INVALID_API_KEY"
  ELSE IF status = 404 THEN "RESOURCE_NOT_FOUND"
  ELSE IF status = 429 THEN "RATE_LIMIT_EXCEEDED"
  ELSE IF status = 500 THEN "INTERNAL_SERVER_ERROR"
  ELSE "UNKNOWN_ERROR"

C9_UploadFailureError ==
  \A c \in CallIds :
    IsRejectedByStore(c) =>
      /\ calls[c].pc = "rejected"
      /\ Len(GrantedOf(c)) = 1
      /\ calls[c].error.name = "NoCloudAPIError"
      /\ calls[c].error.status = LastOf(c).status
      /\ calls[c].error.code = CodeForStatus(LastOf(c).status)
      /\ calls[c].error.message[1] =
           (IF calls[c].op = "upload" THEN "Failed to upload file to R2: "
            ELSE "Failed to upload stream to R2: ")
      /\ \A d \in CallIds :
           (IsRejectedByControl(d) /\ LastOf(d).status = LastOf(c).status) =>
             /\ ErrorKind(calls[d].error) = ErrorKind(calls[c].error)
             /\ calls[d].error.status = calls[c].error.status

\* one call rejected by a 500 to its PUT, another by a 500 of the control plane
C9_Witness ==
  \E c, d \in CallIds :
    /\ IsRejectedByStore(c)
    /\ LastOf(c).status = 500
    /\ IsRejectedByControl(d)
    /\ LastOf(d).status = 500

(***************************************************************************)
(* C10.  upload of a value that is no Blob, File, ArrayBuffer or string    *)
(* (upload(42)) is rejected with a NoCloudAPIError of status 400, code     *)
(* BAD_REQUEST, and the call makes no network request at all.              *)
(***************************************************************************)
IsUnsupportedUpload(c) ==
  calls[c].op = "upload" /\ calls[c].body.kind \notin {"Blob", "ArrayBuffer", "string"}

C10_UnsupportedBodyRejected ==
  \A c \in CallIds :
    IsUnsupportedUpload(c) =>
      /\ calls[c].pc = "rejected"
      /\ calls[c].error.name = "NoCloudAPIError"
      /\ calls[c].error.status = 400
      /\ calls[c].error.code = "BAD_REQUEST"
      /\ log[c] = <<>>
      /\ InFlightOf(c) = {}

\* upload(42) has been called
C10_Witness ==
  \E c \in CallIds :
    /\ calls[c].op = "upload"
    /\ calls[c].body.kind = "number"
    /\ calls[c].pc = "rejected"

(***************************************************************************)
(* C11.  No request of upload or uploadStream to the object store carries  *)
(* the API key: a PUT has the Content-Length header and no other, so no    *)
(* Authorization header, while every request to the control plane, of any  *)
(* method, carries Authorization: Bearer <apiKey>.  This holds of every    *)
(* request logged and of every request in flight.                          *)
(***************************************************************************)
CarriesApiKey(req) ==
  /\ "Authorization" \in DOMAIN req.headers
  /\ req.headers["Authorization"] = <<"Bearer ", fetcher.apiKey>>

IsKeyless(req) ==
  /\ "Authorization" \notin DOMAIN req.headers
  /\ DOMAIN req.headers = {"Content-Length"}

KeyOnControlPlaneOnly(req) ==
  /\ req.plane = "data" => IsKeyless(req)
  /\ req.plane = "control" => CarriesApiKey(req)
  /\ req.url.origin = "https://store" => req.plane = "data"

C11_PutCarriesNoApiKey ==
  \A c \in CallIds :
    /\ \A j \in 1..Len(log[c]) :
         log[c][j].ev = "request" => KeyOnControlPlaneOnly(log[c][j].req)
    /\ \A m \in InFlightOf(c) : KeyOnControlPlaneOnly(m.req)

\* an uploadStream that has sent its signed-URL request with the key and its PUT
C11_Witness ==
  \E c \in CallIds :
    /\ calls[c].op = "uploadStream"
    /\ Len(PutsOf(c)) = 1
    /\ \E j \in 1..Len(log[c]) : IsSign(log[c][j]) /\ CarriesApiKey(log[c][j].req)
    /\ \E m \in InFlightOf(c) : m.req.plane = "data"

(***************************************************************************)
(* C12.  In every upload call one number is used three times: the size     *)
(* that body inspection computed is the size parameter of the signed-URL   *)
(* request (of every attempt), the Content-Length header of the PUT, and   *)
(* the number of bytes of the payload the PUT sends.                       *)
(***************************************************************************)
C12_OneSizeThroughout ==
  \A c \in CallIds :
    calls[c].op = "upload" =>
      \A j \in 1..Len(log[c]) :
        /\ IsSign(log[c][j]) =>
             /\ log[c][j].req.url.query.given
             /\ log[c][j].req.url.query.size = calls[c].size
        /\ IsPut(log[c][j]) =>
             /\ log[c][j].req.headers["Content-Length"] = <<calls[c].size>>
             /\ log[c][j].req.body.kind = "payload"
             /\ PayloadLength(log[c][j].req.body.payload) = calls[c].size
             /\ \E i \in 1..(j - 1) :
                  /\ IsSign(log[c][i])
                  /\ <<log[c][i].req.url.query.size>> = log[c][j].req.headers["Content-Length"]

\* an upload of a five-character string of six UTF-8 bytes has sent its PUT
C12_Witness ==
  \E c \in CallIds :
    /\ calls[c].op = "upload"
    /\ calls[c].body.kind = "string"
    /\ Len(calls[c].body.chars) = 5
    /\ Len(PutsOf(c)) = 1
    /\ PutsOf(c)[1].req.headers["Content-Length"] = <<6>>

\* an upload of a data URL whose payload decodes to eight bytes has sent its PUT
C12_WitnessBase64 ==
  \E c \in CallIds :
    /\ calls[c].op = "upload"
    /\ calls[c].body.kind = "string"
    /\ Len(calls[c].body.chars) > 20
    /\ Len(PutsOf(c)) = 1
    /\ PutsOf(c)[1].req.headers["Content-Length"] = <<8>>
    /\ Len(PutsOf(c)[1].req.body.payload.bytes) = 8

(***************************************************************************)
(* C13.  As stated: the metadata a caller gives to upload, uploadStream or *)
(* generateSignedUrl is carried by the signed-URL request, unchanged: the  *)
(* request is made with (contentType, size, metadata).                     *)
(***************************************************************************)
\* the metadata a request carries, in its query or in its body
MetadataOf(req) ==
  IF "metadata" \in DOMAIN req.url.query THEN req.url.query.metadata
  ELSE IF "metadata" \in DOMAIN req.body THEN req.body.metadata
  ELSE IF "metadata" \in DOMAIN req.headers THEN req.headers["metadata"]
  ELSE "undefined"

TakesMetadata(c) == calls[c].op \in {"generateSignedUrl", "upload", "uploadStream"}

C13_MetadataPassedVerbatim ==
  \A c \in CallIds :
    TakesMetadata(c) =>
      \A j \in 1..Len(log[c]) :
        IsSign(log[c][j]) =>
          /\ log[c][j].req.url.query.contentType = calls[c].contentType
          /\ log[c][j].req.url.query.size = calls[c].size
          /\ MetadataOf(log[c][j].req) = calls[c].metadata

\* what the code does: the signed-URL request is the same whatever the metadata
C13_MetadataNeverSent ==
  \A c \in CallIds :
    TakesMetadata(c) =>
      \A j \in 1..Len(log[c]) :
        IsSign(log[c][j]) =>
          /\ MetadataOf(log[c][j].req) = "undefined"
          /\ DOMAIN log[c][j].req.url.query = {"given", "contentType", "size"}
          /\ log[c][j].req.body.kind = "none"
          /\ DOMAIN log[c][j].req.headers = {"Authorization"}

\* an upload called with metadata has sent its signed-URL request
C13_Witness ==
  \E c \in CallIds :
    /\ calls[c].op = "upload"
    /\ calls[c].metadata = "metadata-1"
    /\ \E j \in 1..Len(log[c]) : IsSign(log[c][j])

(***************************************************************************)
(* C14.  uploadStream inspects nothing: its first step is the signed-URL   *)
(* request, made with the contentType and contentLength the caller gave    *)
(* (whatever the stream holds), and its PUT has that contentLength as      *)
(* Content-Length and the stream itself as body.  Otherwise it behaves as  *)
(* upload: the PUT follows directly on the successful signed-URL answer    *)
(* and is the only one; a failed signed-URL request rejects the call       *)
(* without a PUT; a non-2xx answer to the PUT rejects it with a            *)
(* NoCloudAPIError of the object store's status; a 2xx answer resolves it  *)
(* with {id: mediaId, url: mediaUrl} of the signed URL it was granted.     *)
(***************************************************************************)
\* the call's requests are those of uploadStream(a.stream, a.contentType, a.contentLength)
FollowsStreamArgs(c, a) ==
  \A j \in 1..Len(log[c]) :
    /\ IsSign(log[c][j]) =>
         /\ log[c][j].req.url.query.contentType = a.contentType
         /\ log[c][j].req.url.query.size = a.contentLength
    /\ IsPut(log[c][j]) =>
         /\ log[c][j].req.headers = ("Content-Length" :> <<a.contentLength>>)
         /\ log[c][j].req.body.kind = "stream"
         /\ log[c][j].req.body.payload = a.stream
         /\ IsSignGranted(log[c][j - 1])
         /\ log[c][j].req.url.id = GrantOf(c)

C14_UploadStreamAsUpload ==
  \A c \in CallIds :
    calls[c].op = "uploadStream" =>
      /\ log[c] # <<>>
      /\ IsSign(log[c][1])
      /\ \E a \in Streams : FollowsStreamArgs(c, a)
      /\ Len(PutsOf(c)) <= 1
      /\ \A j \in 1..Len(log[c]) :
           /\ (log[c][j].ev = "request" /\ ~IsPut(log[c][j])) =>
                IsSign(log[c][j]) /\ \A i \in 1..j : ~IsPut(log[c][i])
           /\ IsSignFailure(log[c][j]) =>
                j = Len(log[c]) /\ calls[c].pc = "rejected" /\ PutsOf(c) = <<>>
           /\ IsPutFailure(log[c][j]) =>
                j = Len(log[c]) /\ calls[c].pc = "rejected"
      /\ IsRejectedByStore(c) =>
           /\ calls[c].error.name = "NoCloudAPIError"
           /\ calls[c].error.status = LastOf(c).status
      /\ calls[c].pc = "resolved" <=>
           (IsPutResponse(LastOf(c)) /\ LastOf(c).status \in 200..299)
      /\ calls[c].pc = "resolved" =>
           /\ calls[c].value.kind = "UploadResponse"
           /\ calls[c].value.id = <<"media", GrantOf(c)>>
           /\ calls[c].value.url = <<"https://cdn/", GrantOf(c)>>

\* an uploadStream of a three-byte stream declared as five bytes of video/mp4,
\* resolved
C14_Witness ==
  \E c \in CallIds :
    /\ calls[c].op = "uploadStream"
    /\ calls[c].pc = "resolved"
    /\ Len(PutsOf(c)) = 1
    /\ PutsOf(c)[1].req.headers["Content-Length"] = <<5>>
    /\ Len(PutsOf(c)[1].req.body.payload.bytes) = 3

\* an uploadStream rejected by a 503 of the object store
C14_WitnessStoreFails ==
  \E c \in CallIds :
    /\ calls[c].op = "uploadStream"
    /\ IsRejectedByStore(c)
    /\ calls[c].error.status = 503

(***************************************************************************)
(* C15.  delete of a single id (bare, or the only element of an array)     *)
(* makes one logical call: DELETE <base>/cloud/storage/<id>, attempted     *)
(* again only after a throw.  The call resolves, with undefined, exactly   *)
(* when that request is answered 2xx with a JSON body.  When it is         *)
(* answered non-2xx the call is rejected with the error of                 *)
(* resolveJsonResponse: a NoCloudAPIError with the answer's status and the *)
(* code of that status (a TypeError if the error body is the JSON null).   *)
(***************************************************************************)
IsNon2xx(e) == e.ev = "response" /\ ~(e.status \in 200..299)

C15_SingleDelete ==
  \A c \in CallIds :
    IsOneIdDelete(c) =>
      /\ log[c] # <<>>
      /\ Len(IssuedOf(c)) = 1
      /\ Len(SelectSeq(log[c], LAMBDA e : e.ev = "response")) <= 1
      /\ \A k \in 1..Len(RequestsOf(c)) :
           /\ RequestsOf(c)[k].req.method = "DELETE"
           /\ RequestsOf(c)[k].req.url.path = <<"/cloud/", "storage/">>
           /\ RequestsOf(c)[k].req.url.id = calls[c].ids[1]
           /\ RequestsOf(c)[k].req.attempt = k - 1
      /\ \A j \in 2..Len(log[c]) :
           log[c][j].ev = "request" => log[c][j - 1].ev = "delay"
      /\ calls[c].pc = "resolved" <=> IsSuccess(LastOf(c))
      /\ calls[c].pc = "resolved" => calls[c].value.kind = "undefined"
      /\ IsNon2xx(LastOf(c)) =>
           /\ calls[c].pc = "rejected"
           /\ IF LastOf(c).kind = "null"
              THEN calls[c].error.name = "TypeError"
              ELSE /\ calls[c].error.name = "NoCloudAPIError"
                   /\ calls[c].error.status = LastOf(c).status
                   /\ calls[c].error.code = CodeForStatus(LastOf(c).status)

\* delete(id) rejected by a 404: not found
C15_Witness ==
  \E c \in CallIds :
    /\ IsOneIdDelete(c) /\ calls[c].bare
    /\ calls[c].pc = "rejected"
    /\ LastOf(c).ev = "response" /\ LastOf(c).status = 404
    /\ calls[c].error.code = "RESOURCE_NOT_FOUND"

\* delete(id) resolved after a throw, a delay and a 200
C15_WitnessResolved ==
  \E c \in CallIds :
    /\ IsOneIdDelete(c) /\ calls[c].bare
    /\ calls[c].pc = "resolved"
    /\ Len(RequestsOf(c)) = 2
    /\ LastOf(c).status = 200

(***************************************************************************)
(* C16.  withRetry with retries >= 0, as Fetcher.fetch runs it: a request  *)
(* is attempted at most retries + 1 times (attempts 0..retries).  An       *)
(* attempt that returns a response ends the request, and the response is   *)
(* what the caller of fetch goes on with; attempt k > 0 is made only       *)
(* directly after the delay that directly follows the throw of attempt     *)
(* k - 1 of the same request.  A delay follows every throw but that of     *)
(* attempt `retries`; after that one nothing is waited for and the call is *)
(* rejected with the error this last attempt threw.                        *)
(***************************************************************************)
SameRequest(r1, r2) == [r1 EXCEPT !.attempt = 0] = [r2 EXCEPT !.attempt = 0]

IsControlThrow(e) == e.ev = "throw" /\ e.req.plane = "control"

C16_RetryBound ==
  \A c \in CallIds :
    /\ calls[c].pc = "delay" <=> (log[c] # <<>> /\ LastOf(c).ev = "delay")
    /\ \A j \in 1..Len(log[c]) :
         LET e == log[c][j] IN
         /\ (e.ev = "request" /\ e.req.plane = "control") =>
              /\ e.req.attempt \in 0..fetcher.retryCount
              /\ e.req.attempt > 0 =>
                   /\ j > 2
                   /\ log[c][j - 1].ev = "delay"
                   /\ IsControlThrow(log[c][j - 2])
                   /\ log[c][j - 2].req.attempt = e.req.attempt - 1
                   /\ SameRequest(log[c][j - 2].req, e.req)
              /\ e.req.attempt = 0 =>
                   (j = 1 \/ (log[c][j - 1].ev = "response" /\ IsSuccess(log[c][j - 1])))
         /\ e.ev = "delay" =>
              /\ j > 1
              /\ IsControlThrow(log[c][j - 1])
              /\ log[c][j - 1].req.attempt < fetcher.retryCount
         /\ (IsControlThrow(e) /\ e.req.attempt < fetcher.retryCount) =>
              /\ j < Len(log[c])
              /\ log[c][j + 1].ev = "delay"
         /\ (IsControlThrow(e) /\ e.req.attempt >= fetcher.retryCount) =>
              /\ e.req.attempt = fetcher.retryCount
              /\ j = Len(log[c])
              /\ calls[c].pc = "rejected"
              /\ calls[c].error.name = "TypeError"
              /\ calls[c].error.message = <<"fetch failed", ToString(e.req.attempt)>>
         /\ (e.ev = "response" /\ e.req.plane = "control") =>
              /\ j < Len(log[c]) =>
                   (log[c][j + 1].ev = "request" /\ log[c][j + 1].req.attempt = 0)
              /\ j = Len(log[c]) => calls[c].pc \in {"resolved", "rejected"}

\* with retries = 2: three attempts threw, the call is rejected with the third error
C16_Witness ==
  \E c \in CallIds :
    /\ fetcher.retryCount = 2
    /\ calls[c].pc = "rejected"
    /\ Len(SelectSeq(log[c], IsControlThrow)) = 3
    /\ Len(SelectSeq(log[c], LAMBDA e : e.ev = "delay")) = 2
    /\ calls[c].error.message = <<"fetch failed", "2">>

\* with retries = 2: the second attempt returned a response
C16_WitnessSecondAttempt ==
  \E c \in CallIds :
    /\ fetcher.retryCount = 2
    /\ calls[c].pc = "resolved"
    /\ Len(RequestsOf(c)) = 2
    /\ Len(SelectSeq(log[c], IsControlThrow)) = 1

\* with retries = 0: the only attempt threw, nothing is waited for
C16_WitnessNoRetries ==
  \E c \in CallIds :
    /\ fetcher.retryCount = 0
    /\ calls[c].pc = "rejected"
    /\ Len(log[c]) = 2
    /\ IsControlThrow(LastOf(c))

(***************************************************************************)
(* C17.  As stated: a non-2xx response of a control-plane endpoint is      *)
(* retried before its error is surfaced: while attempts are left, a        *)
(* non-2xx answer does not end the call.                                   *)
(***************************************************************************)
IsControlNon2xx(e) == IsNon2xx(e) /\ e.req.plane = "control"

C17_Non2xxRetried ==
  \A c \in CallIds :
    \A j \in 1..Len(log[c]) :
      (IsControlNon2xx(log[c][j]) /\ log[c][j].req.attempt < fetcher.retryCount) =>
        ~(j = Len(log[c]) /\ calls[c].pc = "rejected")

(***************************************************************************)
(* C17, amended.  A non-2xx response of a control-plane endpoint           *)
(* (signed-URL or delete) is never retried: withRetry returns it as the    *)
(* result of the attempt, whatever the number of attempts left, and the    *)
(* call is rejected at once with the error made from it.  Only attempts    *)
(* that throw are retried, so every attempt before the answered one threw. *)
(***************************************************************************)
C17_Non2xxNotRetried ==
  \A c \in CallIds :
    \A j \in 1..Len(log[c]) :
      IsControlNon2xx(log[c][j]) =>
        /\ j = Len(log[c])
        /\ calls[c].pc = "rejected"
        /\ InFlightOf(c) = {}
        /\ log[c][j].kind # "null" =>
             /\ calls[c].error.name = "NoCloudAPIError"
             /\ calls[c].error.status = log[c][j].status
        /\ Len(SelectSeq(log[c], IsNon2xx)) = 1
        /\ log[c][j - 1].ev = "request"
        /\ log[c][j - 1].req = log[c][j].req
        /\ \A k \in 0..(log[c][j].req.attempt - 1) :
             /\ j - 3 * (log[c][j].req.attempt - k) >= 1
             /\ IsControlThrow(log[c][j - 3 * (log[c][j].req.attempt - k)])
             /\ log[c][j - 3 * (log[c][j].req.attempt - k)].req.attempt = k

\* with two retries left, a 500 to the first attempt of a delete rejects the call
C17_Witness ==
  \E c \in CallIds :
    /\ fetcher.retryCount = 2
    /\ calls[c].op = "delete"
    /\ calls[c].pc = "rejected"
    /\ Len(log[c]) = 2
    /\ IsControlNon2xx(LastOf(c))
    /\ LastOf(c).status = 500
    /\ LastOf(c).req.attempt = 0

\* a 429 to the second attempt of a signed-URL request, the first having thrown
C17_WitnessAfterThrow ==
  \E c \in CallIds :
    /\ fetcher.retryCount = 2
    /\ calls[c].op = "upload"
    /\ calls[c].pc = "rejected"
    /\ log[c] # <<>>
    /\ IsControlNon2xx(LastOf(c))
    /\ LastOf(c).status = 429
    /\ LastOf(c).req.attempt = 1

(***************************************************************************)
(* C18.  As stated: every failure of generateSignedUrl, upload,            *)
(* uploadStream or delete reaches the caller as a structured API error     *)
(* with an HTTP-status-shaped code and a message, whatever failed (the     *)
(* network after the retries, the fetch of the PUT, the base64 decoding,   *)
(* the parsing of a response body); and no call resolves with null or a    *)
(* silent default: only delete resolves with undefined.                    *)
(***************************************************************************)
IsStructuredError(error) ==
  /\ error.name = "NoCloudAPIError"
  /\ error.status \in 100..599
  /\ error.code \in {"BAD_REQUEST", "INVALID_API_KEY", "RATE_LIMIT_EXCEEDED",
                     "RESOURCE_NOT_FOUND", "INTERNAL_SERVER_ERROR", "UNKNOWN_ERROR"}
  /\ error.message # <<>>

C18_FailuresAreStructured ==
  \A c \in CallIds :
    /\ calls[c].pc = "rejected" => IsStructuredError(calls[c].error)
    /\ calls[c].pc = "resolved" =>
         /\ calls[c].value.kind # "null"
         /\ calls[c].value.kind = "undefined" => calls[c].op = "delete"

\* what the code does: a rejection is structured exactly when it comes from a
\* non-2xx answer with a readable error body or from an unsupported body type
C18_OnlyStatusFailuresStructured ==
  \A c \in CallIds :
    calls[c].pc = "rejected" =>
      (IsStructuredError(calls[c].error) <=>
         \/ log[c] = <<>> /\ IsUnsupportedUpload(c)
         \/ log[c] # <<>> /\ IsNon2xx(LastOf(c))
              /\ (LastOf(c).req.plane = "control" => LastOf(c).kind # "null"))

\* an upload rejected with the TypeError of the last attempt's fetch
C18_Witness ==
  \E c \in CallIds :
    /\ calls[c].op = "upload"
    /\ calls[c].pc = "rejected"
    /\ log[c] # <<>>
    /\ IsControlThrow(LastOf(c))
    /\ calls[c].error.name = "TypeError"
    /\ calls[c].error.status = 0

\* generateSignedUrl resolved with null
C18_WitnessNull ==
  \E c \in CallIds :
    /\ calls[c].op = "generateSignedUrl"
    /\ calls[c].pc = "resolved"
    /\ calls[c].value.kind = "null"

(***************************************************************************)
(* C19.  The error NoCloudAPIError.fromStatus builds carries the status it *)
(* was given, unchanged, whatever the category, and its code is derived    *)
(* from the status alone: 400 BAD_REQUEST, 401 INVALID_API_KEY, 404        *)
(* RESOURCE_NOT_FOUND, 429 RATE_LIMIT_EXCEEDED, 500 INTERNAL_SERVER_ERROR, *)
(* every other status UNKNOWN_ERROR.  The message is the one it was given. *)
(***************************************************************************)
C19_StatusKeptCodeDerived ==
  \A c \in CallIds :
    calls[c].op = "fromStatus" =>
      /\ calls[c].error.name = "NoCloudAPIError"
      /\ calls[c].error.status = calls[c].status
      /\ calls[c].error.message \in ErrorMessages
      /\ calls[c].error.code =
           (CASE calls[c].status = 400 -> "BAD_REQUEST"
              [] calls[c].status = 401 -> "INVALID_API_KEY"
              [] calls[c].status = 404 -> "RESOURCE_NOT_FOUND"
              [] calls[c].status = 429 -> "RATE_LIMIT_EXCEEDED"
              [] calls[c].status = 500 -> "INTERNAL_SERVER_ERROR"
              [] OTHER -> "UNKNOWN_ERROR")
      /\ calls[c].error.code = "UNKNOWN_ERROR" <=>
           calls[c].status \notin {400, 401, 404, 429, 500}

\* fromStatus(503, ...): the category is unknown, the status is kept
C19_Witness ==
  \E c \in CallIds :
    /\ calls[c].op = "fromStatus"
    /\ calls[c].status = 503
    /\ calls[c].error.status = 503
    /\ calls[c].error.code = "UNKNOWN_ERROR"

\* fromStatus(429, ...)
C19_WitnessRateLimit ==
  \E c \in CallIds :
    /\ calls[c].op = "fromStatus"
    /\ calls[c].status = 429
    /\ calls[c].error.code = "RATE_LIMIT_EXCEEDED"

\* in the operations: an error built from an answer carries the answer's status
\* and that status's code
C19_InOperations ==
  \A c \in CallIds :
    (calls[c].pc = "rejected" /\ calls[c].error.name = "NoCloudAPIError" /\ log[c] # <<>>) =>
      /\ LastOf(c).ev = "response"
      /\ calls[c].error.status = LastOf(c).status
      /\ calls[c].error.code = CodeForStatus(LastOf(c).status)

(***************************************************************************)
(* C20.  As stated: for every string detected as base64 whose raw payload  *)
(* s (the data-URL head removed) decodes, with no, one or two trailing     *)
(* "=", getBase64DecodedSize(s) = floor(len(s) * 3 / 4) - padding is the   *)
(* length of the byte buffer decodeBase64(s) produces.                     *)
(***************************************************************************)
IsDecoded(c) == calls[c].op = "decodeBase64" /\ calls[c].pc = "resolved"

RawOf(c) == extractBase64Data(calls[c].body.chars)

\* the number of "=" at the end of s, counted on the string itself
PaddingOf(s) ==
  IF Len(s) >= 1 /\ s[Len(s)] = "="
  THEN IF Len(s) >= 2 /\ s[Len(s) - 1] = "=" THEN 2 ELSE 1
  ELSE 0

HasSpace(s) == \E k \in 1..Len(s) : s[k] = " "

C20_SizeMatchesDecoded ==
  \A c \in CallIds :
    IsDecoded(c) =>
      /\ calls[c].size = ((Len(RawOf(c)) * 3) \div 4) - PaddingOf(RawOf(c))
      /\ calls[c].size = Len(calls[c].normalizedBody.bytes)

\* what the code does: the two agree on the strings without white space
C20_SizeMatchesWithoutSpace ==
  \A c \in CallIds :
    (IsDecoded(c) /\ ~HasSpace(RawOf(c))) =>
      /\ calls[c].size = ((Len(RawOf(c)) * 3) \div 4) - PaddingOf(RawOf(c))
      /\ calls[c].size = Len(calls[c].normalizedBody.bytes)

\* a raw string with two "=" has been decoded
C20_Witness ==
  \E c \in CallIds :
    /\ IsDecoded(c)
    /\ PaddingOf(RawOf(c)) = 2
    /\ Len(calls[c].normalizedBody.bytes) = 4

\* a data URL's payload with one "=" and no white space has been decoded
C20_WitnessDataUrl ==
  \E c \in CallIds :
    /\ IsDecoded(c)
    /\ Len(RawOf(c)) < Len(calls[c].body.chars)
    /\ PaddingOf(RawOf(c)) = 1
    /\ ~HasSpace(RawOf(c))
    /\ calls[c].size = 2

\* a string with white space has been decoded, and the size is not the length
C20_WitnessSpace ==
  \E c \in CallIds :
    /\ IsDecoded(c)
    /\ HasSpace(RawOf(c))
    /\ calls[c].size # Len(calls[c].normalizedBody.bytes)

(***************************************************************************)
(* Detection, extraction and body inspection on their own.                 *)
(***************************************************************************)
IsDetected(c) == calls[c].op = "detectBase64MimeType" /\ calls[c].pc = "resolved"

\* the position of the first ";" or "," of str after "data:", or Len(str) + 1
DeclaredEnd(str) ==
  LET stops == { k \in (Len(DataPrefix) + 1)..Len(str) : str[k] \in {";", ","} } IN
  IF stops = {} THEN Len(str) + 1 ELSE CHOOSE k \in stops : \A j \in stops : k <= j

\* str is "data:", then a media type of at least one character
DeclaresType(str) == StartsWith(str, DataPrefix) /\ DeclaredEnd(str) > Len(DataPrefix) + 1

DeclaredType(str) == SubSeq(str, Len(DataPrefix) + 1, DeclaredEnd(str) - 1)

\* C21: for a string that starts with "data:" and a media type, the detection
\* returns that media type exactly as written, whatever follows it: the
\* payload's signature is never looked at
C21_DeclaredTypeWins ==
  \A c \in CallIds :
    IsDetected(c) /\ DeclaresType(calls[c].body.chars)
      => calls[c].contentType = DeclaredType(calls[c].body.chars)

\* a data URL that declares image/png over a payload with the JPEG signature
C21_Witness ==
  \E c \in CallIds :
    /\ IsDetected(c)
    /\ DeclaresType(calls[c].body.chars)
    /\ DeclaredType(calls[c].body.chars) = ImagePng
    /\ FirstSignature(Drop(calls[c].body.chars, DeclaredEnd(calls[c].body.chars)
                                                  + Len(Base64Marker) - 1), 1) = ImageJpeg
    /\ calls[c].contentType = ImagePng

\* a media type written with capitals comes back with its capitals
C21_WitnessVerbatim ==
  \E c \in CallIds :
    /\ IsDetected(c)
    /\ calls[c].contentType = <<"I","m","a","g","e","/","P","N","G">>

IsInspected(c) == calls[c].op = "getBodyInfo" /\ calls[c].pc = "resolved"

MatchesSignature(str) ==
  \E k \in 1..Len(BASE64_SIGNATURES) : StartsWith(str, BASE64_SIGNATURES[k].prefix)

\* the number of bytes of the UTF-8 encoding of a character (RFC 3629)
Utf8Width(ch) ==
  IF CodePoint(ch) <= 127 THEN 1 ELSE IF CodePoint(ch) <= 2047 THEN 2 ELSE 3

RECURSIVE Utf8Length(_)
Utf8Length(s) == IF s = <<>> THEN 0 ELSE Utf8Width(s[1]) + Utf8Length(Tail(s))

IsPlainText(body) ==
  body.kind = "string" /\ ~DeclaresType(body.chars) /\ ~MatchesSignature(body.chars)

\* C22: a string that neither declares a media type after "data:" nor starts
\* with a signature is text/plain; its payload is a Blob of its UTF-8 encoding
\* and its size is the number of bytes of that encoding
C22_PlainTextAsUtf8 ==
  \A c \in CallIds :
    calls[c].op = "getBodyInfo" /\ IsPlainText(calls[c].body)
      => /\ calls[c].pc = "resolved"
         /\ calls[c].contentType = TextPlain
         /\ calls[c].normalizedBody.kind = "Blob"
         /\ Len(calls[c].normalizedBody.bytes) = Utf8Length(calls[c].body.chars)
         /\ calls[c].size = Utf8Length(calls[c].body.chars)
         /\ \A k \in 1..calls[c].size : calls[c].normalizedBody.bytes[k] \in 0..255

\* the five characters "héllo" come out as 6 bytes
C22_Witness ==
  \E c \in CallIds :
    /\ IsInspected(c)
    /\ calls[c].body = StringBody(StrHello)
    /\ calls[c].contentType = TextPlain
    /\ Len(calls[c].body.chars) = 5
    /\ calls[c].size = 6
    /\ calls[c].normalizedBody.bytes = <<104, 195, 169, 108, 108, 111>>

\* a character of three bytes
C22_WitnessThreeBytes ==
  \E c \in CallIds :
    /\ IsInspected(c)
    /\ calls[c].body = StringBody(<<"euro">>)
    /\ calls[c].normalizedBody.bytes = <<226, 130, 172>>

IsExtracted(c) == calls[c].op = "extractBase64Data" /\ calls[c].pc \in {"resolved", "rejected"}

\* the positions of str at which ";base64," starts
MarkersOf(str) ==
  { k \in 1..Len(str) : StartsWith(Drop(str, k - 1), Base64Marker) }

HasMarker(str) == MarkersOf(str) # {}

\* what follows the first ";base64," of str
AfterFirstMarker(str) ==
  LET k == CHOOSE k \in MarkersOf(str) : \A j \in MarkersOf(str) : k <= j
  IN Drop(str, k + Len(Base64Marker) - 1)

\* the media type is followed by parameters before the marker
HasParams(str) ==
  HasMarker(str) /\ ~StartsWith(Drop(str, DeclaredEnd(str) - 1), Base64Marker)

\* C23: for every string detected as a data URL (with a ";base64," marker), the
\* text handed to the decoder is what follows the first marker, also when
\* parameters stand between the media type and the marker
C23_PayloadAfterMarker ==
  \A c \in CallIds :
    IsExtracted(c) /\ DeclaresType(calls[c].body.chars) /\ HasMarker(calls[c].body.chars)
      => calls[c].rawBase64 = AfterFirstMarker(calls[c].body.chars)

\* a data URL with a charset parameter: the whole string goes to the decoder,
\* which rejects it
C23_Witness ==
  \E c \in CallIds :
    /\ IsExtracted(c)
    /\ calls[c].body.chars = DataPrefix \o TextPlain
                               \o <<";","c","h","a","r","s","e","t","=","u","t","f","-","8">>
                               \o Base64Marker \o <<"Q","U","J","D">>
    /\ calls[c].contentType = TextPlain
    /\ calls[c].rawBase64 = calls[c].body.chars
    /\ calls[c].pc = "rejected"
    /\ calls[c].error = InvalidCharacterError

\* without parameters and with a payload of at least one character, the text
\* handed to the decoder is what follows the marker
C23_PayloadAfterMarkerPlainHead ==
  \A c \in CallIds :
    /\ IsExtracted(c) /\ DeclaresType(calls[c].body.chars) /\ HasMarker(calls[c].body.chars)
    /\ ~HasParams(calls[c].body.chars)
    /\ AfterFirstMarker(calls[c].body.chars) # <<>>
    => calls[c].rawBase64 = AfterFirstMarker(calls[c].body.chars)

C23_WitnessPlainHead ==
  \E c \in CallIds :
    /\ IsExtracted(c)
    /\ calls[c].body.chars = DataPrefix \o ImagePng \o Base64Marker \o <<"Q","U","J","D">>
    /\ calls[c].rawBase64 = <<"Q","U","J","D">>
    /\ calls[c].normalizedBody.bytes = <<65, 66, 67>>

\* an empty payload: the whole string goes to the decoder
C23_WitnessEmptyPayload ==
  \E c \in CallIds :
    /\ IsExtracted(c)
    /\ calls[c].body.chars = DataPrefix \o ImagePng \o Base64Marker
    /\ calls[c].rawBase64 = calls[c].body.chars
    /\ calls[c].pc = "rejected"

\* a type with no parameter: not empty, and no ";" in it
IsBareType(type) == type # <<>> /\ ";" \notin Range(type)

\* C24: whenever the inspection of a body resolves, the size equals the number
\* of bytes of the payload and the content type carries no parameter
C24_SizeExactTypeBare ==
  \A c \in CallIds :
    IsInspected(c)
      => /\ calls[c].size = PayloadLength(calls[c].normalizedBody)
         /\ IsBareType(calls[c].contentType)

\* a Blob declared as "text/plain; charset=utf-8" of 4 bytes
C24_Witness ==
  \E c \in CallIds :
    /\ IsInspected(c)
    /\ calls[c].body = BlobBody(TextPlainCharset, 4)
    /\ ";" \in Range(calls[c].body.type)
    /\ calls[c].contentType = TextPlain
    /\ calls[c].size = 4
    /\ PayloadLength(calls[c].normalizedBody) = 4

\* a data URL decoded to 3 bytes
C24_WitnessDataUrl ==
  \E c \in CallIds :
    /\ IsInspected(c)
    /\ calls[c].body.chars = DataPrefix \o ApplicationPdf \o Base64Marker \o <<"Q","U","J","D">>
    /\ calls[c].contentType = ApplicationPdf
    /\ calls[c].size = 3
    /\ calls[c].normalizedBody.bytes = <<65, 66, 67>>

\* the declared type up to its first ";", without the spaces around it
RECURSIVE BeforeParams(_)
BeforeParams(type) ==
  IF type = <<>> \/ type[1] = ";" THEN <<>>
  ELSE IF type[1] = " " /\ (BeforeParams(Tail(type)) = <<>>) THEN <<>>
  ELSE <<type[1]>> \o BeforeParams(Tail(type))

StrippedType(type) == BeforeParams(TrimLeft(type))

IsHandle(body) == body.kind \in {"Blob", "ArrayBuffer"}

\* the payload is the handle that was given, not a copy of its bytes
IsPassedThrough(c) ==
  /\ calls[c].normalizedBody.kind = "same"
  /\ calls[c].normalizedBody.ref = calls[c].body
  /\ calls[c].size = calls[c].body.size

\* C27 as stated: a Blob's content type is its declared type with the
\* parameters stripped, its size the declared size and its payload the Blob
\* itself; a buffer is application/octet-stream with its byte length and itself
C27_HandlePassedThrough ==
  \A c \in CallIds :
    calls[c].op = "getBodyInfo" /\ IsHandle(calls[c].body)
      => /\ calls[c].pc = "resolved"
         /\ IsPassedThrough(c)
         /\ calls[c].body.kind = "Blob"
              => calls[c].contentType = StrippedType(calls[c].body.type)
         /\ calls[c].body.kind = "ArrayBuffer" => calls[c].contentType = OctetStream

\* C27, amended: as above, and a Blob whose declared type is empty once the
\* parameters are stripped is application/octet-stream
C27_HandlePassedThroughOrDefault ==
  \A c \in CallIds :
    calls[c].op = "getBodyInfo" /\ IsHandle(calls[c].body)
      => /\ calls[c].pc = "resolved"
         /\ IsPassedThrough(c)
         /\ calls[c].body.kind = "Blob"
              => calls[c].contentType =
                   IF StrippedType(calls[c].body.type) # <<>>
                   THEN StrippedType(calls[c].body.type) ELSE OctetStream
         /\ calls[c].body.kind = "ArrayBuffer" => calls[c].contentType = OctetStream

\* a Blob with parameters and spaces in its type, and a Blob with no type
C27_Witness ==
  \E c \in CallIds :
    /\ IsInspected(c)
    /\ calls[c].body.kind = "Blob"
    /\ calls[c].body.type = <<" ","i","m","a","g","e","/","p","n","g"," ",";","q","=","1",";","x">>
    /\ calls[c].contentType = ImagePng
    /\ IsPassedThrough(c)

C27_WitnessNoType ==
  \E c \in CallIds :
    /\ IsInspected(c)
    /\ calls[c].body = BlobBody(<<>>, 4)
    /\ calls[c].contentType = OctetStream
    /\ IsPassedThrough(c)

C27_WitnessBuffer ==
  \E c \in CallIds :
    /\ IsInspected(c)
    /\ calls[c].body = BufferBody(8)
    /\ calls[c].contentType = OctetStream
    /\ calls[c].size = 8
    /\ IsPassedThrough(c)

\* the rows of the table in another order: video/mp4 (row 5) last, and reversed
Mp4Last == <<1, 2, 3, 4, 6, 7, 8, 9, 5>>
Reversed == <<9, 8, 7, 6, 5, 4, 3, 2, 1>>

\* the type of the first row, in the given order, whose prefix str starts with
RECURSIVE DetectInOrder(_, _, _)
DetectInOrder(order, str, k) ==
  IF k > Len(order) THEN NullType
  ELSE IF StartsWith(str, BASE64_SIGNATURES[order[k]].prefix)
       THEN BASE64_SIGNATURES[order[k]].mimeType
       ELSE DetectInOrder(order, str, k + 1)

MatchingRows(str) ==
  { k \in 1..Len(BASE64_SIGNATURES) : StartsWith(str, BASE64_SIGNATURES[k].prefix) }

NoSignatureIsPrefix ==
  \A i, j \in 1..Len(BASE64_SIGNATURES) :
    i # j => ~StartsWith(BASE64_SIGNATURES[i].prefix, BASE64_SIGNATURES[j].prefix)

\* C30: no signature is a prefix of another; a string that declares no type
\* matches at most one signature, and the detection returns what the table
\* gives with video/mp4 checked last, or with the rows in reverse order
C30_OrderIndependent ==
  /\ NoSignatureIsPrefix
  /\ \A c \in CallIds :
       IsDetected(c) /\ ~DeclaresType(calls[c].body.chars)
         => /\ Cardinality(MatchingRows(calls[c].body.chars)) <= 1
            /\ calls[c].contentType = DetectInOrder(Mp4Last, calls[c].body.chars, 1)
            /\ calls[c].contentType = DetectInOrder(Reversed, calls[c].body.chars, 1)

\* the detection of a string that starts with the ZIP signature
C30_Witness ==
  \E c \in CallIds :
    /\ IsDetected(c)
    /\ calls[c].body.chars = <<"U","E","s","D","B">>
    /\ MatchingRows(calls[c].body.chars) = {7}
    /\ calls[c].contentType = ApplicationZip

\* video/mp4, whose row the two orders place differently
C30_WitnessMp4 ==
  \E c \in CallIds :
    /\ IsDetected(c)
    /\ calls[c].body.chars = <<"A","A","A","A">>
    /\ calls[c].contentType = VideoMp4

IsResolverCall(c) ==
  calls[c].op = "resolveJsonResponse" /\ calls[c].pc \in {"resolved", "rejected"}

\* the body is a JSON object with a message that is not empty
HasMessage(body) == body.kind = "object" /\ body.message \notin {"undefined", ""}

\* the error the claim describes for a response that is no 2xx
IsApiErrorOf(error, response) ==
  /\ error.name = "NoCloudAPIError"
  /\ error.status = response.status
  /\ error.message = IF HasMessage(response.body) THEN <<response.body.message>>
                     ELSE <<"Unknown error">>

\* C28: a response that is no 2xx always makes the resolver throw an API error
\* with the response's status and the body's message, or "Unknown error" when
\* the body gives none; a 2xx response with a JSON body resolves to that body
C28_ResolverContract ==
  \A c \in CallIds :
    IsResolverCall(c)
      => /\ ~IsOk(calls[c].response.status)
              => calls[c].pc = "rejected" /\ IsApiErrorOf(calls[c].error, calls[c].response)
         /\ IsOk(calls[c].response.status) /\ BodyParses(calls[c].response.body)
              => calls[c].pc = "resolved" /\ calls[c].parsed = calls[c].response.body

\* a 500 whose body is the JSON value null: a TypeError, with no status
C28_Witness ==
  \E c \in CallIds :
    /\ IsResolverCall(c)
    /\ calls[c].response.status = 500
    /\ calls[c].response.body.kind = "null"
    /\ calls[c].pc = "rejected"
    /\ calls[c].error.name = "TypeError"
    /\ calls[c].error.status = 0

\* with every body but the JSON value null, the resolver does as C28 says
C28_ResolverContractExceptNull ==
  \A c \in CallIds :
    IsResolverCall(c) /\ calls[c].response.body.kind # "null"
      => /\ ~IsOk(calls[c].response.status)
              => calls[c].pc = "rejected" /\ IsApiErrorOf(calls[c].error, calls[c].response)
         /\ IsOk(calls[c].response.status) /\ BodyParses(calls[c].response.body)
              => calls[c].pc = "resolved" /\ calls[c].parsed = calls[c].response.body

C28_WitnessMessage ==
  \E c \in CallIds :
    /\ IsResolverCall(c)
    /\ calls[c].response.status = 429
    /\ calls[c].error = fromStatus(429, <<"Quota exceeded">>)

C28_WitnessFallback ==
  \E c \in CallIds :
    /\ IsResolverCall(c)
    /\ calls[c].response.status = 503
    /\ calls[c].response.body.kind = "text"
    /\ calls[c].error = fromStatus(503, <<"Unknown error">>)

(***************************************************************************)
(* The headers of the requests that go through Fetcher.fetch.              *)
(***************************************************************************)
\* req carries the caller's headers as given, and the Authorization header with
\* the API key unless the caller gave an Authorization of its own
MergesHeaders(req, given) ==
  /\ DOMAIN req.headers = DOMAIN given \cup {"Authorization"}
  /\ \A h \in DOMAIN given : req.headers[h] = given[h]
  /\ "Authorization" \notin DOMAIN given
       => req.headers["Authorization"] = <<"Bearer ", fetcher.apiKey>>

\* C29: every attempt of every request sent through Fetcher.fetch, retries
\* included, carries the caller's headers unchanged and "Authorization: Bearer
\* <apiKey>", which gives way only to an Authorization header of the caller
C29_BearerMergedUnderCaller ==
  \A c \in CallIds :
    \A j \in 1..Len(log[c]) :
      IsRequest(log[c][j]) /\ log[c][j].req.plane = "control"
        => MergesHeaders(log[c][j].req, calls[c].options.headers)

\* a retry (the second attempt) of a request with a header of the caller
C29_Witness ==
  \E c \in CallIds :
    /\ calls[c].op = "fetch"
    /\ calls[c].options.headers = ("X-Request-Id" :> <<"r-1">>)
    /\ \E j \in 1..Len(log[c]) :
         /\ IsRequest(log[c][j])
         /\ log[c][j].req.attempt = 1
         /\ log[c][j].req.headers =
              ("X-Request-Id" :> <<"r-1">>) @@ ("Authorization" :> <<"Bearer ", fetcher.apiKey>>)

\* the caller's own Authorization is the one that is sent, on a retry too
C29_WitnessOwnAuthorization ==
  \E c \in CallIds :
    /\ calls[c].op = "fetch"
    /\ \E j \in 1..Len(log[c]) :
         /\ IsRequest(log[c][j])
         /\ log[c][j].req.attempt = 1
         /\ log[c][j].req.headers["Authorization"] = <<"Basic ", "own">>

(***************************************************************************)
(* Calls that run at the same time on one client.                          *)
(***************************************************************************)
\* every PUT of upload c carries c's payload and size to the signed URL that
\* the control plane granted in answer to c's own request, and c resolves with
\* the media id and url of that grant
UsesOwnGrant(c) ==
  LET g == GrantOf(c) IN
  /\ \A j \in 1..Len(log[c]) :
       IsPut(log[c][j]) =>
         /\ g > 0
         /\ log[c][j].req.url = Grant(g).url
         /\ log[c][j].req.body.payload = calls[c].normalizedBody
         /\ log[c][j].req.headers["Content-Length"] = <<calls[c].size>>
  /\ calls[c].pc = "resolved" =>
       /\ g > 0
       /\ calls[c].value = UploadResponse(Grant(g).mediaId, Grant(g).mediaUrl)

\* the cursor of batched delete c counts c's own batches that succeeded, and
\* each request of c carries the batch of c's own ids at c's cursor
KeepsOwnCursor(c) ==
  /\ calls[c].i = Len(SuccessesOf(c))
  /\ \A j \in 1..Len(log[c]) :
       IsRequest(log[c][j]) =>
         log[c][j].req.body.ids
           = ExpectedBatch(calls[c].ids, Len(SelectSeq(SubSeq(log[c], 1, j), IsSuccess)))

OwnStatePerCall ==
  /\ \A c \in CallIds :
       /\ IsUploadCall(c) => UsesOwnGrant(c)
       /\ IsBatchedDelete(c) => KeepsOwnCursor(c)
  /\ LET granted == [c \in CallIds |-> GrantOf(c)] IN
     \A c, d \in CallIds :
       c # d /\ granted[c] > 0 => granted[c] # granted[d]

\* a step is a step of one call: the frames and logs of the others stay
OneCallSteps ==
  \E c \in CallIds :
    \A d \in CallIds \ {c} : calls'[d] = calls[d] /\ log'[d] = log[d]

\* C25: with calls interleaved in every way, each upload sends its own payload
\* to the signed URL granted to it and returns that grant's id and url, each
\* delete advances its own cursor over its own ids, a step of one call leaves
\* the other calls as they are, and the client's configuration never changes
C25_NoSharedState ==
  /\ []OwnStatePerCall
  /\ [][OneCallSteps /\ fetcher' = fetcher]_vars

\* two uploads with different payloads at the same time, each with its PUT in
\* flight to its own signed URL
C25_Witness ==
  \E c, d \in CallIds :
    /\ c # d
    /\ IsUploadCall(c) /\ IsUploadCall(d)
    /\ calls[c].pc = "put" /\ calls[d].pc = "put"
    /\ calls[c].normalizedBody # calls[d].normalizedBody
    /\ GrantOf(c) = 2 /\ GrantOf(d) = 1
    /\ \E m \in InFlightOf(c) : m.req.url = Grant(2).url
    /\ \E m \in InFlightOf(d) : m.req.url = Grant(1).url

\* two batched deletes under way with different cursors
C25_WitnessCursors ==
  \E c, d \in CallIds :
    /\ IsBatchedDelete(c) /\ IsBatchedDelete(d)
    /\ calls[c].pc = "fetch" /\ calls[d].pc = "fetch"
    /\ calls[c].i = 1 /\ calls[d].i = 0

(***************************************************************************)
(* What the error of a failed batch tells.                                 *)
(***************************************************************************)
\* batched delete c was rejected when its batch k (from 0) failed
FailedAtBatch(c, k) ==
  /\ IsBatchedDelete(c)
  /\ calls[c].pc = "rejected"
  /\ calls[c].i = k

\* the last events of c and d are the same failure, whatever the requests
SameFailure(c, d) ==
  /\ LastOf(c).ev = LastOf(d).ev
  /\ LastOf(c).status = LastOf(d).status
  /\ LastOf(c).kind = LastOf(d).kind
  /\ LastOf(c).req.attempt = LastOf(d).req.attempt

\* C26 as stated: the error of a failed batch tells which batch failed, so two
\* deletes that failed at different batches have different errors
C26_ErrorTellsBatch ==
  \A c, d \in CallIds :
    \A k, l \in 0..ExpectedBatchCount(calls[c].ids) :
      FailedAtBatch(c, k) /\ FailedAtBatch(d, l) /\ k # l
        => calls[c].error # calls[d].error

\* C26, amended: the error of a failed batch is the error of its request as it
\* is, with a name, status, code and message only; the same failure gives the
\* same error whichever batch it happens in
C26_ErrorIsRequestErrorOnly ==
  /\ \A c \in CallIds :
       IsBatchedDelete(c) /\ calls[c].pc = "rejected"
         => /\ log[c] # <<>>
            /\ IsErrorOf(calls[c].error, LastOf(c))
            /\ DOMAIN calls[c].error = {"name", "status", "code", "message"}
  /\ \A c, d \in CallIds :
       \A k, l \in 0..ExpectedBatchCount(calls[c].ids) :
         FailedAtBatch(c, k) /\ FailedAtBatch(d, l) /\ SameFailure(c, d)
           => calls[c].error = calls[d].error

\* one delete failed at its first batch and one at its second, after the first
\* was deleted, both with a 500: the two errors are the same
C26_Witness ==
  \E c, d \in CallIds :
    /\ FailedAtBatch(c, 0) /\ FailedAtBatch(d, 1)
    /\ LastOf(c).status = 500 /\ LastOf(d).status = 500
    /\ Len(SuccessesOf(d)) = 1
    /\ calls[c].ids = calls[d].ids
    /\ calls[c].error = calls[d].error
    /\ calls[c].error = fromStatus(500, <<"Unknown error">>)

(***************************************************************************)
(* Termination and the number of requests.                                 *)
(***************************************************************************)
IsOperation(c) == calls[c].op \in {"upload", "uploadStream", "delete"}

IsSettled(c) == calls[c].pc \in {"resolved", "rejected"}

BulkCount(c) == Len(SelectSeq(log[c], IsBulk))
SignCount(c) == Len(SelectSeq(log[c], IsSign))
PutCount(c) == Len(SelectSeq(log[c], IsPut))

\* the requests a call may issue with the client's retry count
WithinRequestBounds(c) ==
  /\ IsBatchedDelete(c)
       => BulkCount(c) <= ExpectedBatchCount(calls[c].ids) * (fetcher.retryCount + 1)
  /\ IsUploadCall(c)
       => SignCount(c) <= fetcher.retryCount + 1 /\ PutCount(c) <= 1

\* C31: with a network that answers every request or fails it, every upload,
\* uploadStream and delete that was called settles; a delete of n >= 2 ids
\* issues at most ceil(n/100) * (retries + 1) bulk requests, an upload at most
\* retries + 1 signed-URL requests and one PUT
C31_SettlesWithinBounds ==
  /\ \A c \in CallIds : [](IsOperation(c) => <>IsSettled(c))
  /\ [](\A c \in CallIds : WithinRequestBounds(c))

\* a delete of three batches with two retries that used all nine attempts: each
\* batch threw twice, and the third attempt of the last batch is answered
C31_Witness ==
  \E c \in CallIds :
    /\ IsBatchedDelete(c)
    /\ ExpectedBatchCount(calls[c].ids) = 3
    /\ fetcher.retryCount = MaxRetries
    /\ BulkCount(c) = 3 * (MaxRetries + 1)
    /\ IsSettled(c)

\* an upload that used retries + 1 signed-URL requests and its PUT, and settled
C31_WitnessUpload ==
  \E c \in CallIds :
    /\ calls[c].op = "upload"
    /\ fetcher.retryCount = MaxRetries
    /\ SignCount(c) = MaxRetries + 1
    /\ PutCount(c) = 1
    /\ IsSettled(c)

(***************************************************************************)
(* A delete request answered with a 2xx status.                            *)
(***************************************************************************)
\* the last thing that happened to delete c is a 2xx answer that ended it: the
\* answer to a single delete, or to a batch that no request followed
EndedBy2xx(c) ==
  /\ calls[c].op = "delete"
  /\ log[c] # <<>>
  /\ LastOf(c).ev = "response"
  /\ LastOf(c).status \in 200..299

\* every 2xx answer to a batch before the last event was followed by the request
\* of the next batch
ProceedsAfter2xx(c) ==
  \A j \in 1..(Len(log[c]) - 1) :
    (log[c][j].ev = "response" /\ log[c][j].status \in 200..299)
      => IsFirstAttempt(log[c][j + 1])

\* C32: a delete request answered with a 2xx status has succeeded whatever the
\* body: the single delete resolves, the batched delete goes on to the next
\* batch and resolves after the last
C32_Any2xxSucceeds ==
  \A c \in CallIds :
    calls[c].op = "delete"
      => /\ ProceedsAfter2xx(c)
         /\ EndedBy2xx(c) => calls[c].pc = "resolved"

\* a single delete answered 204 with no body is rejected with a SyntaxError
C32_Witness ==
  \E c \in CallIds :
    /\ EndedBy2xx(c)
    /\ calls[c].single
    /\ LastOf(c).status = 204
    /\ LastOf(c).kind = "empty"
    /\ calls[c].pc = "rejected"
    /\ calls[c].error = JsonSyntaxError

\* a batched delete stops at its first batch, answered 200 with a text body
C32_WitnessBatch ==
  \E c \in CallIds :
    /\ EndedBy2xx(c)
    /\ IsBatchedDelete(c)
    /\ ExpectedBatchCount(calls[c].ids) = 3
    /\ BulkCount(c) = 1
    /\ LastOf(c).kind = "text"
    /\ calls[c].pc = "rejected"

\* with a JSON body (an object or null) the 2xx answer is a success
C32_Json2xxSucceeds ==
  \A c \in CallIds :
    calls[c].op = "delete"
      => /\ ProceedsAfter2xx(c)
         /\ (EndedBy2xx(c) /\ LastOf(c).kind \in {"object", "null"})
              => calls[c].pc = "resolved"

C32_WitnessJson ==
  \E c \in CallIds :
    /\ EndedBy2xx(c)
    /\ calls[c].single
    /\ LastOf(c).kind = "null"
    /\ calls[c].pc = "resolved"

====
